---- MODULE Spec2Model ----
(***************************************************************************)
(* Ingestion pipeline of vdb-flow: CollectionService.load_collection       *)
(* driving the vector-index adapters (Qdrant over HTTP, in-memory), the    *)
(* sliding-window RateLimiter and the get_embedding retry loop.            *)
(*                                                                         *)
(* These specifications share this module:                                 *)
(*   Spec      load_collection + adapter + remote index                    *)
(*   SpecRL    RateLimiter.acquire called by several threads               *)
(*   FairSpecRL the same on one key, with an endless clock and fairness     *)
(*   SpecEmb   get_embedding's attempt loop                                *)
(*   SpecUC    single adapter calls against an index that already has      *)
(*             points                                                      *)
(*   SpecId    the primary-id derivations of the adapters, side by side    *)
(*   SpecChunk chunk_text applied to texts                                 *)
(*   SpecReq   the Qdrant adapter's operations, request by request         *)
(*   SpecConfig Config.__init__ followed by chunk_text with its defaults   *)
(*   SpecPool  one upload_chunks_batch call, thread by thread              *)
(*   SpecDetect _detect_hybrid_from_info applied to JSON documents          *)
(*   SpecStore one batch stored by the bulk write and by the per-item way   *)
(* Each leaves the variables of the others untouched.                      *)
(***************************************************************************)
EXTENDS Integers, Sequences, FiniteSets, TLC

(***************************************************************************)
(* Bounds of the model (the program's values are configuration: 800/100    *)
(* words per chunk, 50 chunks per batch; the model scales them down).      *)
(***************************************************************************)
MaxWords == 2
MaxRuns == 2
BATCH_SIZE == 2
ChunkSize == 2
ChunkOverlap == 1

DEFAULT_MAX_WORKERS == 4

\* Bounds of SpecRL: largest max_calls, ticks per time_window, the last tick
\* of the clock, and acquire calls per run.
MaxCalls == 2
TimeWindow == 2
MaxTime == 4
MaxAcquires == 4

\* Bound of SpecEmb: config.max_text_length, in words (5000 characters by
\* default in the program).
MaxTextLength == 2

\* Bound of SpecUC: adapter calls per run.
MaxAdapterCalls == 2

\* get_embedding's max_attempts and base_delay
max_attempts == 3
base_delay == 1

VARIABLES
    adapter,      \* "qdrant" | "inmemory": the VectorDatabase behind db_client
    tree,         \* the input tree: files in os.walk order, each with its words
    remote,       \* the remote collection's configuration (params)
    index0,       \* the index content before the first run (never changes)
    index,        \* the collection's points: id -> [vector, payload]
    cache,        \* _hybrid_collections_cache: collection name -> BOOLEAN
    pc,           \* position of load_collection
    run,          \* number of the current load_collection call
    all_chunks,   \* the flat chunk list of the current run
    batch_start,  \* loop variable of the batch loop (0-based)
    pending,      \* prepare futures of the batch not yet consumed (0-based)
    points,       \* points prepared for the bulk write, in completion order
    item,         \* loop index inside a batch (in-memory batch, fallback)
    processed,    \* _process_batch_with_fallback's counter
    pbar,         \* cumulative pbar.update total of the run
    fbCalls,      \* chunks handed to upload_chunk by the current fallback
    fbFailed,     \* chunks whose upload_chunk raised in the current fallback
    batchStarts,  \* batch_start of every batch begun in this run, in order
    path,         \* how the current batch is being stored: "bulk" | "fallback"
    last,         \* what the last adapter call did (requests, embeddings)
    rejected,     \* point ids the index rejects (at most one is designated)
    clean,        \* no fault other than that rejection happened in this run
    snapshot,     \* ids in the index when the previous run ended
    exc           \* exception that left load_collection ("" if none)

ingestVars == <<adapter, tree, remote, index0, index, cache, pc, run, all_chunks,
                batch_start, pending, points, item, processed, pbar, fbCalls,
                fbFailed, batchStarts, path, last, rejected, clean, snapshot, exc>>

VARIABLES
    now,          \* time.time(), in ticks
    max_calls,    \* RateLimiter.max_calls
    calls,        \* RateLimiter.calls: key -> recorded call times, oldest first
    lock,         \* RateLimiter.lock: the thread inside `with self.lock`, if any
    rl_pc,        \* thread -> position in acquire
    rl_key,       \* thread -> key argument of its acquire
    current_time, \* thread -> acquire's local current_time
    wake_at,      \* thread -> earliest time its time.sleep returns
    started,      \* key -> number of acquire(key) calls made
    first_call,   \* key -> time of the first acquire(key) call (-1: none yet)
    admitted      \* key -> times recorded by acquire(key), in order

rlVars == <<now, max_calls, calls, lock, rl_pc, rl_key, current_time, wake_at,
            started, first_call, admitted>>

VARIABLES
    emb_pc,       \* position of get_embedding
    emb_text,     \* its text argument
    ollama_url,   \* its ollama_url argument
    attempt,      \* loop variable of the attempt loop
    acquires,     \* number of embedding_rate_limiter.acquire() calls made
    posts,        \* outcome of every requests.post made, in order
    sleeps,       \* argument of every time.sleep made, in order
    emb_result    \* what the call returned or raised

embVars == <<emb_pc, emb_text, ollama_url, attempt, acquires, posts, sleeps,
             emb_result>>

VARIABLES
    arg,          \* the chunk given to the last adapter call
    before,       \* the index content before the last adapter call
    ncalls,       \* number of adapter calls made
    collection,   \* the collection argument of the adapter calls
    derived,      \* the primary ids the last adapter call derived, with their inputs
    derived_prev  \* the same for the adapter call before it

ucVars == <<arg, before, ncalls, collection, derived, derived_prev>>

VARIABLES
    ct_pc,        \* position of the chunk_text call: "idle", "returned"
    ct_text,      \* its text argument, a sequence of characters
    ct_size,      \* its chunk_size argument
    ct_overlap,   \* its overlap argument
    ct_chunks     \* the list it returned

chunkVars == <<ct_pc, ct_text, ct_size, ct_overlap, ct_chunks>>

VARIABLES
    precheck      \* what load_collection's pre-checks met: whether the path
                  \* exists and the answer of get_collection_info

VARIABLES
    emb_seen      \* the get_embedding calls made for the Qdrant adapter in this
                  \* run of load_collection: "none", "all_failed" (each raised
                  \* after its retries), "some_ok"

VARIABLES
    rq_cache,     \* QdrantVectorDatabase._hybrid_collections_cache
    rq_remote,    \* the collection as the index holds it: exists, layout
    rq_last,      \* the last adapter operation: what it was given, the cache
                  \* before it, its requests and events, what it raised
    rq_n,         \* number of adapter operations made
    rq_assumed    \* whether a failed inspection has stored the assumed status
                  \* of the collection since its entry was last removed: "no",
                  \* "yes", "overwritten" (yes, and create_collection has
                  \* stored a status over it since)

reqVars == <<rq_cache, rq_remote, rq_last, rq_n, rq_assumed>>

VARIABLES
    cfg_pc,       \* position in Config.__init__: "init", "file" (the file has
                  \* been merged), "loaded" (the environment has been applied)
    cfg_file,     \* the text_processing keys the configuration file sets
    environ,      \* the environment variables that are set, as strings
    config        \* Config._config["text_processing"]

cfgVars == <<cfg_pc, cfg_file, environ, config>>

VARIABLES
    pp_pc,        \* position of an upload_chunks_batch call seen thread by
                  \* thread: "idle", "prepare", "upload", "returned", "raised"
    pp_n,         \* number of chunks it was given
    pp_path,      \* "parallel" or "sequential" once chosen
    pp_workers,   \* max_workers of the ThreadPoolExecutor
    pp_task,      \* per chunk, the state of its prepare_point task
    pp_callbacks  \* the progress_callback invocations made, in order

poolVars == <<pp_pc, pp_n, pp_path, pp_workers, pp_task, pp_callbacks>>

VARIABLES
    dh_pc,        \* position of a _detect_hybrid_from_info call: "idle", "returned"
    dh_info,      \* the collection_info it is given, a JSON value
    dh_result     \* what it returned

detectVars == <<dh_pc, dh_info, dh_result>>

VARIABLES
    st_chunks,    \* a batch of chunks to be stored
    st_start,     \* the index before the batch
    st_remote,    \* the layout of the collection
    st_bulk,      \* the bulk way: whether upload_chunks_batch was called, and
                  \* the index after it
    st_items      \* the per-item way: the next chunk of the batch to be given
                  \* to upload_chunk, the index and the hybrid cache so far

storeVars == <<st_chunks, st_start, st_remote, st_bulk, st_items>>

extraVars == <<detectVars, storeVars>>

lateVars == <<cfgVars, poolVars, extraVars>>

auxVars == <<chunkVars, precheck, emb_seen, reqVars, lateVars>>

vars == <<ingestVars, rlVars, embVars, ucVars, auxVars>>

(***************************************************************************)
(* The state in which a part of the program that a specification does not  *)
(* exercise stays.                                                         *)
(***************************************************************************)
\* The threads calling acquire; NoThread stands for the lock being free.
Threads == {"worker-1", "worker-2"}

NoThread == ""

Keys == {"default", "index"}

RLConstructed(mc) ==
    /\ now = 0
    /\ max_calls = mc
    /\ calls = [k \in Keys |-> <<>>]
    /\ lock = NoThread
    /\ rl_pc = [t \in Threads |-> "idle"]
    /\ rl_key = [t \in Threads |-> "default"]
    /\ current_time = [t \in Threads |-> 0]
    /\ wake_at = [t \in Threads |-> 0]
    /\ started = [k \in Keys |-> 0]
    /\ first_call = [k \in Keys |-> -1]
    /\ admitted = [k \in Keys |-> <<>>]

EmbNotCalled(text, url) ==
    /\ emb_pc = "idle"
    /\ emb_text = text
    /\ ollama_url = url
    /\ attempt = 0
    /\ acquires = 0
    /\ posts = <<>>
    /\ sleeps = <<>>
    /\ emb_result = [kind |-> "none"]

NoAdapterCall(coll) ==
    /\ arg = <<>>
    /\ before = <<>>
    /\ ncalls = 0
    /\ collection = coll
    /\ derived = {}
    /\ derived_prev = {}

ChunkTextNotCalled(text, chunk_size, overlap) ==
    /\ ct_pc = "idle"
    /\ ct_text = text
    /\ ct_size = chunk_size
    /\ ct_overlap = overlap
    /\ ct_chunks = <<>>

\* load_collection has not run its pre-checks
NoPrecheck == [path_exists |-> TRUE, info |-> ""]

\* No operation of the adapter has been made.
NoOperation ==
    [op |-> "", arg |-> FALSE, before |-> <<>>, log |-> <<>>, events |-> <<>>,
     raised |-> "", value |-> FALSE, named |-> {}, lookups |-> 0]

AdapterConstructed(rmt) ==
    /\ rq_cache = <<>>
    /\ rq_remote = rmt
    /\ rq_last = NoOperation
    /\ rq_n = 0
    /\ rq_assumed = "no"

\* An empty mapping: no key of the file, no variable of the environment
Empty == [k \in {} |-> 0]

\* config.DEFAULT_CONFIG["text_processing"]
DEFAULT_CONFIG == [chunk_size |-> ChunkSize, overlap |-> ChunkOverlap]

ConfigNotConstructed(file, env) ==
    /\ cfg_pc = "init"
    /\ cfg_file = file
    /\ environ = env
    /\ config = DEFAULT_CONFIG

\* JSON values: dictionaries, lists, strings and null
JDict(items) == [kind |-> "dict", val |-> items]
JList(items) == [kind |-> "list", val |-> items]
JStr(chars) == [kind |-> "str", val |-> chars]
JNull == [kind |-> "null", val |-> <<>>]

DetectNotCalled(info) ==
    /\ dh_pc = "idle"
    /\ dh_info = info
    /\ dh_result = FALSE

StoreNotCalled(chunks, idx, rmt) ==
    /\ st_chunks = chunks
    /\ st_start = idx
    /\ st_remote = rmt
    /\ st_bulk = [done |-> FALSE, index |-> idx]
    /\ st_items = [next |-> 1, index |-> idx, cache |-> <<>>]

NoBatchToStore ==
    StoreNotCalled(<<>>, <<>>, [sparse_vectors |-> FALSE, dense_named |-> FALSE])

ExtraParked == DetectNotCalled(JNull) /\ NoBatchToStore

BatchNotCalled(n) ==
    /\ pp_pc = "idle"
    /\ pp_n = n
    /\ pp_path = ""
    /\ pp_workers = 0
    /\ pp_task = [i \in 1..n |-> "new"]
    /\ pp_callbacks = <<>>

AuxParked ==
    /\ ChunkTextNotCalled(<<>>, 1, 0)
    /\ ConfigNotConstructed(Empty, Empty)
    /\ BatchNotCalled(0)
    /\ ExtraParked
    /\ AdapterConstructed([exists |-> FALSE,
                           layout |-> [sparse_vectors |-> FALSE, dense_named |-> FALSE]])
    /\ precheck = NoPrecheck
    /\ emb_seen = "none"

Min(a, b) == IF a < b THEN a ELSE b

Collection == "adrs"

(***************************************************************************)
(* Input tree.  A file name is a sequence of tokens so that endswith and   *)
(* the "{file_name}-{chunk_id}" formatting are computed, not assumed.      *)
(***************************************************************************)
FileA == <<"a", ".md">>
FileN == <<"n", ".txt">>
FileB == <<"b", ".md">>
WordList == <<"w1", "w2", "w3", "w4">>
WordsOf(n) == [i \in 1..n |-> WordList[i]]

TreeOf(na, nb) ==
    (IF na >= 0 THEN <<[name |-> FileA, words |-> WordsOf(na)]>> ELSE <<>>)
    \o <<[name |-> FileN, words |-> WordsOf(1)]>>
    \o (IF nb >= 0 THEN <<[name |-> FileB, words |-> WordsOf(nb)]>> ELSE <<>>)

Trees == {TreeOf(na, nb) : na \in {-1, 0, 1, MaxWords}, nb \in {-1, 1}}

(***************************************************************************)
(* text_processing.chunk_text: windows of chunk_size words every           *)
(* chunk_size - overlap words; a chunk is the joined words of its window.  *)
(***************************************************************************)
RECURSIVE ChunkFrom(_, _, _, _)
ChunkFrom(words, i, chunk_size, step) ==
    IF i >= Len(words) THEN <<>>
    ELSE LET chunk == SubSeq(words, i + 1, Min(i + chunk_size, Len(words)))
         IN (IF chunk # <<>> THEN <<chunk>> ELSE <<>>)
            \o ChunkFrom(words, i + step, chunk_size, step)

chunk_text_stride_is_size(words, chunk_size, overlap) ==
    ChunkFrom(words, 0, chunk_size, chunk_size)

chunk_text(words, chunk_size, overlap) ==
    ChunkFrom(words, 0, chunk_size, chunk_size - overlap)

(***************************************************************************)
(* CollectionService._discover_md_files / _collect_all_chunks              *)
(***************************************************************************)
EndsWithMd(name) == Len(name) > 0 /\ name[Len(name)] = ".md"

\* Mutant: the walk keeps every file, whatever its suffix.
discover_md_files_any_suffix(t) == t

discover_md_files(t) == SelectSeq(t, LAMBDA f : EndsWithMd(f.name))

\* Mutant: chunk ids are the positions of enumerate(), starting at 0.
RECURSIVE collect_all_chunks_zero_based(_)
collect_all_chunks_zero_based(md_files) ==
    IF md_files = <<>> THEN <<>>
    ELSE LET f == Head(md_files)
             chunks == chunk_text(f.words, ChunkSize, ChunkOverlap)
         IN [i \in 1..Len(chunks) |->
                [text |-> chunks[i], file |-> f.name, cid |-> i - 1]]
            \o collect_all_chunks_zero_based(Tail(md_files))

RECURSIVE collect_all_chunks(_)
collect_all_chunks(md_files) ==
    IF md_files = <<>> THEN <<>>
    ELSE LET f == Head(md_files)
             chunks == chunk_text(f.words, ChunkSize, ChunkOverlap)
         IN [i \in 1..Len(chunks) |->
                [text |-> chunks[i], file |-> f.name, cid |-> i]]
            \o collect_all_chunks(Tail(md_files))

(***************************************************************************)
(* Point identity.  sha256 and uuid.UUID are modelled as injective         *)
(* wrappers of the formatted key; the key formatting is computed.          *)
(***************************************************************************)
Digits == <<"0", "1", "2", "3", "4", "5", "6", "7", "8", "9">>

RECURSIVE IntStr(_)
IntStr(n) == IF n < 10 THEN <<Digits[n + 1]>>
             ELSE IntStr(n \div 10) \o <<Digits[(n % 10) + 1]>>

Sha256Uuid(key) == [uuid |-> key]

\* QdrantVectorDatabase._generate_point_id
generate_point_id(file_name, chunk_id) ==
    Sha256Uuid(file_name \o <<"-">> \o IntStr(chunk_id))

\* QdrantVectorDatabase._generate_collision_point_id
generate_collision_point_id(file_name, chunk_id, text) ==
    Sha256Uuid(file_name \o <<"-">> \o IntStr(chunk_id) \o <<"-", "sha16(">> \o text \o <<")">>)

\* Mutant: another separator in the hashed key.
inmemory_point_id_underscore(file_name, chunk_id) ==
    Sha256Uuid(file_name \o <<"_">> \o IntStr(chunk_id))

\* InMemoryVectorDatabase.upload_chunk's inline id derivation
inmemory_point_id(file_name, chunk_id) ==
    Sha256Uuid(file_name \o <<"-">> \o IntStr(chunk_id))

PrimaryIds(chunks) ==
    {generate_point_id(chunks[i].file, chunks[i].cid) : i \in DOMAIN chunks}

(***************************************************************************)
(* The remote index as the adapter sees it.                                *)
(***************************************************************************)
EmptyIndex == [id \in {} |-> 0]

\* embedding_func(chunk_text) when it returns
Embed(text) == [embedding |-> text]

\* A point somebody else stored (other source file): a true hash collision.
ForeignPoint ==
    [vector |-> Embed(<<"zz">>),
     payload |-> [chunk_text |-> <<"zz">>, source_file |-> <<"x", ".md">>,
                  chunk_id |-> 1]]

\* create_collection's two layouts, as GET /collections/{name} reports them
RemoteConfigs == {[sparse_vectors |-> TRUE, dense_named |-> TRUE],
                  [sparse_vectors |-> FALSE, dense_named |-> FALSE]}

\* Answers to GET /collections/{c}/points/{id}: 200 only for a stored point,
\* 404 for an absent one, a server error or a transport failure at any time.
CheckOutcomes(idx, pid) ==
    {"transport", "error"} \cup (IF pid \in DOMAIN idx THEN {"found"} ELSE {"absent"})

\* Mutant: an answer other than 200 and 404 raises.
check_point_exists_error_raises(idx, pid, file_name, chunk_id, o) ==
    IF o \in {"transport", "error"}
    THEN [raised |-> TRUE, exists |-> FALSE, is_match |-> FALSE]
    ELSE IF o # "found"
    THEN [raised |-> FALSE, exists |-> FALSE, is_match |-> FALSE]
    ELSE [raised |-> FALSE, exists |-> TRUE,
          is_match |-> /\ idx[pid].payload.source_file = file_name
                       /\ idx[pid].payload.chunk_id = chunk_id]

\* Mutant: the payload comparison never matches (a wrong payload key).
check_point_exists_never_match(idx, pid, file_name, chunk_id, o) ==
    [raised |-> o = "transport", exists |-> o = "found", is_match |-> FALSE]

\* Mutant: a stored point is reported absent.
check_point_exists_never_found(idx, pid, file_name, chunk_id, o) ==
    [raised |-> o = "transport", exists |-> FALSE, is_match |-> FALSE]

\* Mutant: the chunk_id compared is zero-based.
check_point_exists_zero_based(idx, pid, file_name, chunk_id, o) ==
    [raised |-> o = "transport", exists |-> o = "found",
     is_match |-> /\ o = "found"
                  /\ idx[pid].payload.source_file = file_name
                  /\ idx[pid].payload.chunk_id = chunk_id - 1]

\* QdrantVectorDatabase._check_point_exists
check_point_exists(idx, pid, file_name, chunk_id, o) ==
    IF o = "transport"
    THEN [raised |-> TRUE, exists |-> FALSE, is_match |-> FALSE]
    ELSE IF o # "found"
    THEN [raised |-> FALSE, exists |-> FALSE, is_match |-> FALSE]
    ELSE [raised |-> FALSE, exists |-> TRUE,
          is_match |-> /\ idx[pid].payload.source_file = file_name
                       /\ idx[pid].payload.chunk_id = chunk_id]

\* Mutant: only a sparse-vector configuration makes a collection hybrid.
detect_hybrid_from_info_sparse_only(info) == info.sparse_vectors

\* QdrantVectorDatabase._detect_hybrid_from_info
detect_hybrid_from_info(info) == info.sparse_vectors \/ info.dense_named

\* Answers to GET /collections/{name} (get_collection_info)
InfoOutcomes == {"ok", "notfound", "error", "transport"}

\* Mutant: a cached standard status is inspected again.
ensure_hybrid_collection_cached_recheck_standard(cch, coll, rmt, o) ==
    IF coll \in DOMAIN cch /\ cch[coll]
    THEN [cache |-> cch, is_hybrid |-> cch[coll], reqs |-> <<>>, fault |-> FALSE]
    ELSE LET is_hybrid == IF o = "ok" THEN detect_hybrid_from_info(rmt) ELSE FALSE
         IN [cache |-> (coll :> is_hybrid) @@ cch, is_hybrid |-> is_hybrid,
             reqs |-> <<[m |-> "get_info", ids |-> {}]>>, fault |-> o # "ok"]

\* QdrantVectorDatabase._ensure_hybrid_collection_cached
ensure_hybrid_collection_cached(cch, coll, rmt, o) ==
    IF coll \in DOMAIN cch
    THEN [cache |-> cch, is_hybrid |-> cch[coll], reqs |-> <<>>, fault |-> FALSE]
    ELSE LET is_hybrid == IF o = "ok" THEN detect_hybrid_from_info(rmt) ELSE FALSE
         IN [cache |-> cch @@ (coll :> is_hybrid), is_hybrid |-> is_hybrid,
             reqs |-> <<[m |-> "get_info", ids |-> {}]>>, fault |-> o # "ok"]

\* QdrantVectorDatabase._format_vector_payload
format_vector_payload(vector, is_hybrid) ==
    IF is_hybrid THEN [dense |-> vector] ELSE vector

\* QdrantVectorDatabase._create_point_payload
create_point_payload(point_id, vector, text, file_name, chunk_id, is_hybrid) ==
    [id |-> point_id,
     vector |-> format_vector_payload(vector, is_hybrid),
     payload |-> [chunk_text |-> text, source_file |-> file_name,
                  chunk_id |-> chunk_id]]

PointIds(pts) == {pts[i].id : i \in DOMAIN pts}

\* The index applying an accepted PUT .../points: an upsert by id, a later
\* point of the request winning over an earlier one with the same id.
Upsert(idx, pts) ==
    [id \in DOMAIN idx \cup PointIds(pts) |->
        IF id \in PointIds(pts)
        THEN LET i == CHOOSE k \in DOMAIN pts :
                        pts[k].id = id /\ \A j \in DOMAIN pts : pts[j].id = id => j <= k
             IN [vector |-> pts[i].vector, payload |-> pts[i].payload]
        ELSE idx[id]]

\* Answers to PUT .../points?wait=true: accepted; refused because of one of
\* its points ("reject", naming the point); a server error; a transport
\* failure before ("lost") or after ("applied") the index applied the write.
PutOutcomes(pts) ==
    {[k |-> o, i |-> 0] : o \in {"ok", "error", "lost", "applied"}}
    \cup {[k |-> "reject", i |-> i] : i \in DOMAIN pts}

\* The request/response of _make_request("put", upload_url, json=data) against
\* the index.  rej holds the point the index refuses, once it has refused one:
\* a request carrying it is always refused.
put_points(idx, pts, rej, o) ==
    LET hasRej == PointIds(pts) \cap rej # {}
        k == IF hasRej /\ o.k \in {"ok", "applied"} THEN "reject" ELSE o.k
        designates == k = "reject" /\ ~hasRej /\ rej = {}
    IN [index |-> IF k \in {"ok", "applied"} THEN Upsert(idx, pts) ELSE idx,
        resp_ok |-> k = "ok",
        transport |-> k \in {"lost", "applied"},
        rejected |-> IF designates THEN {pts[o.i].id} ELSE rej,
        fault |-> ~(k = "ok" \/ (k = "reject" /\ (hasRej \/ designates)))]

\* What one adapter call did; checks holds the answers to upload_chunk's
\* point existence checks, in order.
CallRecord(op, reqs, embeds, outcome, writes, absent) ==
    [op |-> op, reqs |-> reqs, embeds |-> embeds, outcome |-> outcome,
     writes |-> writes, absent |-> absent, checks |-> <<>>]

Checked(results, answers) == {[r EXCEPT !.call.checks = answers] : r \in results}

NoCall == CallRecord("", <<>>, 0, "", {}, {})

UCResult(idx, cch, rej, fault, call) ==
    [index |-> idx, cache |-> cch, rejected |-> rej, fault |-> fault, call |-> call]

GetPoint(pid) == [m |-> "get_point", ids |-> {pid}]

\* QdrantVectorDatabase.upload_chunk from "vector = embedding_func(chunk_text)"
\* on: embed, look the format up, build the point, PUT it.
upload_chunk_write(coll, idx, cch, rej, rmt, c, pid, reqs, absent, fault0) ==
    UNION {
      IF e = "fail"
      THEN {UCResult(idx, cch, rej, TRUE,
                     CallRecord("upload_chunk", reqs, 1, "raised", {}, absent))}
      ELSE UNION {
        LET h == ensure_hybrid_collection_cached(cch, coll, rmt, io)
            point == create_point_payload(pid, Embed(c.text), c.text, c.file, c.cid,
                                          h.is_hybrid)
        IN { LET w == put_points(idx, <<point>>, rej, po)
             IN UCResult(w.index, h.cache, w.rejected, fault0 \/ h.fault \/ w.fault,
                         CallRecord("upload_chunk",
                                    reqs \o h.reqs \o <<[m |-> "put", ids |-> {pid}]>>,
                                    1,
                                    IF w.resp_ok THEN "stored" ELSE "raised",
                                    {pid}, absent))
             : po \in PutOutcomes(<<point>>) }
        : io \in InfoOutcomes }
      : e \in {"ok", "fail"} }

skip_when_fallback_matches(k2) == k2.exists /\ k2.is_match

\* upload_chunk's `if exists:` after the re-check with the fallback id
skip_when_fallback_exists(k2) == k2.exists

\* The ids a check of this call reported absent.
ReportedAbsent(pid, k) == IF k.exists THEN {} ELSE {pid}

\* QdrantVectorDatabase.upload_chunk: every result the call can have.
upload_chunk(coll, idx, cch, rej, rmt, c) ==
    LET pid1 == generate_point_id(c.file, c.cid)
        pid2 == generate_collision_point_id(c.file, c.cid, c.text)
        req1 == <<GetPoint(pid1)>>
        req2 == <<GetPoint(pid1), GetPoint(pid2)>>
    IN UNION {
      LET k1 == check_point_exists(idx, pid1, c.file, c.cid, o1)
      IN IF k1.raised
         THEN Checked({UCResult(idx, cch, rej, TRUE,
                                CallRecord("upload_chunk", req1, 0, "raised", {}, {}))},
                      <<o1>>)
         ELSE IF k1.exists /\ k1.is_match
         THEN Checked({UCResult(idx, cch, rej, o1 # "found",
                                CallRecord("upload_chunk", req1, 0, "skipped", {}, {}))},
                      <<o1>>)
         ELSE IF k1.exists /\ ~k1.is_match
         THEN UNION {
           LET k2 == check_point_exists(idx, pid2, c.file, c.cid, o2)
           IN Checked(
              IF k2.raised
              THEN {UCResult(idx, cch, rej, TRUE,
                             CallRecord("upload_chunk", req2, 0, "raised", {}, {}))}
              ELSE IF skip_when_fallback_exists(k2)
              THEN {UCResult(idx, cch, rej, FALSE,
                             CallRecord("upload_chunk", req2, 0, "collided", {}, {}))}
              ELSE upload_chunk_write(coll, idx, cch, rej, rmt, c, pid2, req2,
                                      ReportedAbsent(pid2, k2), o2 = "error"),
              <<o1, o2>>)
           : o2 \in CheckOutcomes(idx, pid2) }
         ELSE Checked(upload_chunk_write(coll, idx, cch, rej, rmt, c, pid1, req1,
                                         ReportedAbsent(pid1, k1), o1 = "error"),
                      <<o1>>)
      : o1 \in CheckOutcomes(idx, pid1) }

\* InMemoryVectorDatabase.upload_chunk: embed, check the vector size, store
\* under the id (overwriting).  "badsize" is the embedding the collection
\* refuses; the chunk it refused once it refuses every time.
inmemory_upload_chunk(idx, rej, c) ==
    LET pid == inmemory_point_id(c.file, c.cid)
    IN { LET bad == e = "badsize" \/ (e = "ok" /\ pid \in rej)
             designates == bad /\ rej = {}
         IN IF e = "fail" \/ bad
            THEN UCResult(idx, <<>>, IF designates THEN {pid} ELSE rej,
                          ~(bad /\ (pid \in rej \/ designates)),
                          CallRecord("upload_chunk", <<>>, 1, "raised", {}, {}))
            ELSE UCResult(
                   [id \in DOMAIN idx \cup {pid} |->
                      IF id = pid
                      THEN [id |-> pid, vector |-> Embed(c.text),
                            payload |-> [chunk_text |-> c.text, file_name |-> c.file,
                                         chunk_id |-> c.cid]]
                      ELSE idx[id]],
                   <<>>, rej, FALSE,
                   CallRecord("upload_chunk", <<>>, 1, "stored", {pid}, {}))
         : e \in {"ok", "fail", "badsize"} }

(***************************************************************************)
(* CollectionService.load_collection                                       *)
(***************************************************************************)
\* The point the index is known to refuse is tracked only while nothing else
\* has gone wrong in the run.
Refused(still_clean, rej) == IF still_clean THEN rej ELSE {}

\* Mutant: the loop advances by one chunk.
next_batch_start_by_one(start) == start + 1

\* `for batch_start in range(0, len(all_chunks), BATCH_SIZE)`: the start of
\* the batch after the one starting at start
next_batch_start(start) == start + BATCH_SIZE

BatchEnd(start) == Min(start + BATCH_SIZE, Len(all_chunks))

\* The chunks of the batch being processed, as positions of all_chunks.
BatchItems == (batch_start + 1)..BatchEnd(batch_start)

IngestConstructed(ad, t, rmt, idx) ==
    /\ adapter = ad
    /\ tree = t
    /\ remote = rmt
    /\ index0 = idx
    /\ index = idx
    /\ cache = <<>>
    /\ pc = "idle"
    /\ run = 1
    /\ all_chunks = <<>>
    /\ batch_start = 0
    /\ pending = {}
    /\ points = <<>>
    /\ item = 0
    /\ processed = 0
    /\ pbar = 0
    /\ fbCalls = <<>>
    /\ fbFailed = <<>>
    /\ batchStarts = <<>>
    /\ path = ""
    /\ last = NoCall
    /\ rejected = {}
    /\ clean = TRUE
    /\ snapshot = {}
    /\ exc = ""

InMemoryConfig == [sparse_vectors |-> FALSE, dense_named |-> FALSE]

Init ==
    /\ \E ad \in {"qdrant", "inmemory"}, t \in Trees :
         \E rmt \in (IF ad = "qdrant" THEN RemoteConfigs ELSE {InMemoryConfig}) :
            IngestConstructed(ad, t, rmt, EmptyIndex)
    /\ RLConstructed(1)
    /\ EmbNotCalled(<<>>, "")
    /\ AuxParked
    /\ NoAdapterCall("adrs")

\* CollectionService._validate_collection_exists: the exception, if any, that
\* get_collection_info's answer turns into.
validate_collection_exists(ad, o) ==
    IF o = "ok" THEN ""
    ELSE IF o = "notfound"
    THEN (IF ad = "qdrant" THEN "ValueError" ELSE "CollectionNotFoundError")
    ELSE IF o = "transport" THEN "DatabaseConnectionError"
    ELSE "QdrantError"

\* load_collection up to the batch loop: validate the path and the
\* collection, discover the .md files, build the flat chunk list.
Load ==
    /\ pc = "idle"
    /\ \E path_exists \in BOOLEAN,
          o \in (IF adapter = "qdrant" THEN InfoOutcomes ELSE {"ok", "notfound"}) :
         LET e == IF ~path_exists THEN "FileNotFoundError"
                  ELSE validate_collection_exists(adapter, o)
             md_files == discover_md_files(tree)
         IN /\ IF e # ""
               THEN /\ pc' = "raised"
                    /\ exc' = e
                    /\ UNCHANGED all_chunks
               ELSE IF md_files = <<>>
               THEN /\ pc' = "done"
                    /\ UNCHANGED <<exc, all_chunks>>
               ELSE /\ pc' = "loop"
                    /\ all_chunks' = collect_all_chunks(md_files)
                    /\ UNCHANGED exc
            /\ precheck' = [path_exists |-> path_exists,
                            info |-> IF path_exists THEN o ELSE ""]
    /\ batch_start' = 0
    /\ UNCHANGED <<rlVars, embVars, ucVars, chunkVars, emb_seen, reqVars, lateVars>>
    /\ UNCHANGED <<adapter, tree, remote, index0, index, cache, run, pending, points,
                   item, processed, pbar, fbCalls, fbFailed, batchStarts, path, last,
                   rejected, clean, snapshot>>

\* Mutant: a failed batch upload is logged and the batch dropped.
after_upload_chunks_batch_no_fallback(raised) == "loop"

\* Mutant: the first failing chunk ends the fallback loop.
after_upload_chunk_abort(raised, it, end) ==
    IF raised \/ it = end THEN "loop" ELSE "fallback"

\* Mutant: the fallback loop does not catch upload_chunk's exception.
after_upload_chunk_propagate(raised, it, end) ==
    IF raised THEN "raised" ELSE IF it = end THEN "loop" ELSE "fallback"

\* _process_batch_with_fallback's "try: upload_chunks_batch(...) except
\* Exception": where control goes when the batch upload returned or raised.
after_upload_chunks_batch(raised) == IF raised THEN "fallback" ELSE "loop"

\* The fallback loop's "try: upload_chunk(...) except Exception as e2": where
\* control goes after chunk number it of a batch ending at chunk number end.
after_upload_chunk(raised, it, end) == IF it = end THEN "loop" ELSE "fallback"

\* One iteration of "for batch_start in range(0, len(all_chunks), BATCH_SIZE)"
\* entering _process_batch_with_fallback and upload_chunks_batch up to the
\* prepare phase (Qdrant) or its per-chunk loop (in-memory).
BeginBatch ==
    /\ pc = "loop"
    /\ batch_start < Len(all_chunks)
    /\ batchStarts' = Append(batchStarts, batch_start)
    /\ path' = "bulk"
    /\ processed' = 0
    /\ fbCalls' = <<>>
    /\ fbFailed' = <<>>
    /\ points' = <<>>
    /\ last' = NoCall
    /\ IF adapter = "qdrant"
       THEN \E o \in InfoOutcomes :
              LET h == ensure_hybrid_collection_cached(cache, Collection, remote, o)
              IN /\ cache' = h.cache
                 /\ clean' = (clean /\ ~h.fault)
                 /\ rejected' = Refused(clean /\ ~h.fault, rejected)
                 /\ pending' = BatchItems
                 /\ pc' = "prepare"
                 /\ UNCHANGED item
       ELSE /\ item' = batch_start + 1
            /\ pc' = "imbatch"
            /\ UNCHANGED <<cache, clean, pending, rejected>>
    /\ UNCHANGED <<rlVars, embVars, ucVars, auxVars>>
    /\ UNCHANGED <<adapter, tree, remote, index0, index, run, all_chunks, batch_start,
                   pbar, snapshot, exc>>

\* What a call of the Qdrant adapter's upload_chunk says of its
\* embedding_func call: not reached, raised (nothing is sent after it), or
\* returned.
EmbeddingOutcome(call) ==
    IF call.embeds = 0 THEN "none"
    ELSE IF call.outcome = "raised" /\ call.writes = {} THEN "fail"
    ELSE "ok"

\* The run's record of its get_embedding calls after one more outcome.
EmbSeen(seen, e) ==
    IF e = "ok" THEN "some_ok"
    ELSE IF e = "fail" /\ seen = "none" THEN "all_failed"
    ELSE seen

\* Mutant: the parallel path derives the id from the chunk text as well.
prepare_point_parallel_content_id(c, is_hybrid) ==
    create_point_payload(generate_collision_point_id(c.file, c.cid, c.text),
                         Embed(c.text), c.text, c.file, c.cid, is_hybrid)

\* prepare_point inside _prepare_points_parallel
prepare_point_parallel(c, is_hybrid) ==
    create_point_payload(generate_point_id(c.file, c.cid), Embed(c.text), c.text,
                         c.file, c.cid, is_hybrid)

\* prepare_point inside _prepare_points_sequential
prepare_point_sequential(c, is_hybrid) ==
    create_point_payload(generate_point_id(c.file, c.cid), Embed(c.text), c.text,
                         c.file, c.cid, is_hybrid)

\* upload_chunks_batch's choice between _prepare_points_parallel and
\* _prepare_points_sequential
use_parallel(n) == Min(DEFAULT_MAX_WORKERS, n) > 1 /\ n > 1

\* One prepare_point result consumed by the coordinating loop (as_completed
\* order when parallel, list order when sequential): the point is appended or
\* the failure logged, and progress_callback(1) runs either way.
PreparePoint ==
    /\ pc = "prepare"
    /\ \E i \in pending :
         /\ use_parallel(Cardinality(BatchItems)) \/ \A j \in pending : i <= j
         /\ \E e \in {"ok", "fail"} :
              LET c == all_chunks[i]
                  point == IF use_parallel(Cardinality(BatchItems))
                           THEN prepare_point_parallel(c, cache[Collection])
                           ELSE prepare_point_sequential(c, cache[Collection])
              IN /\ points' = IF e = "ok" THEN Append(points, point) ELSE points
                 /\ clean' = (clean /\ e = "ok")
                 /\ rejected' = Refused(clean /\ e = "ok", rejected)
                 /\ emb_seen' = EmbSeen(emb_seen, e)
         /\ pending' = pending \ {i}
    /\ pbar' = pbar + 1
    /\ UNCHANGED <<rlVars, embVars, ucVars, chunkVars, precheck, reqVars, lateVars>>
    /\ UNCHANGED <<adapter, tree, remote, index0, index, cache, pc, run, all_chunks,
                   batch_start, item, processed, fbCalls, fbFailed, batchStarts, path,
                   last, snapshot, exc>>

\* What follows a batch upload: the next batch, the fallback loop, or (were
\* the exception not caught) the end of load_collection.
EndBulk(nxt) ==
    /\ pc' = nxt
    /\ path' = IF nxt = "fallback" THEN "fallback" ELSE path
    /\ exc' = IF nxt = "raised" THEN "Exception" ELSE exc
    /\ processed' = IF nxt = "loop" THEN Cardinality(BatchItems) ELSE processed
    /\ batch_start' = IF nxt = "loop" THEN next_batch_start(batch_start) ELSE batch_start
    /\ item' = IF nxt = "fallback" THEN batch_start + 1 ELSE item

\* _upload_batch_points and the return into _process_batch_with_fallback:
\* one bulk write; success counts the whole batch, any exception starts the
\* per-item fallback.
BulkWrite ==
    /\ pc = "prepare"
    /\ pending = {}
    /\ \E o \in PutOutcomes(points) :
         LET w == put_points(index, points, rejected, o)
         IN /\ index' = w.index
            /\ rejected' = Refused(clean /\ ~w.fault, w.rejected)
            /\ clean' = (clean /\ ~w.fault)
            /\ last' = CallRecord("upload_chunks_batch",
                                  <<[m |-> "put", ids |-> PointIds(points)]>>,
                                  Cardinality(BatchItems),
                                  IF w.resp_ok THEN "stored" ELSE "raised",
                                  PointIds(points), {})
            /\ EndBulk(after_upload_chunks_batch(~w.resp_ok))
    /\ UNCHANGED <<rlVars, embVars, ucVars, auxVars>>
    /\ UNCHANGED <<adapter, tree, remote, index0, cache, run, all_chunks, pending,
                   points, pbar, fbCalls, fbFailed, batchStarts, snapshot>>

\* InMemoryVectorDatabase.upload_chunks_batch: upload_chunk per chunk in list
\* order, progress_callback(1) after each; the first failure is re-raised as
\* DatabaseOperationError, which starts the per-item fallback.
InMemoryBatchChunk ==
    /\ pc = "imbatch"
    /\ \E r \in inmemory_upload_chunk(index, rejected, all_chunks[item]) :
         /\ index' = r.index
         /\ rejected' = Refused(clean /\ ~r.fault, r.rejected)
         /\ clean' = (clean /\ ~r.fault)
         /\ last' = r.call
         /\ IF r.call.outcome = "raised"
            THEN /\ EndBulk(after_upload_chunks_batch(TRUE))
                 /\ UNCHANGED pbar
            ELSE /\ pbar' = pbar + 1
                 /\ IF item = BatchEnd(batch_start)
                    THEN EndBulk(after_upload_chunks_batch(FALSE))
                    ELSE /\ item' = item + 1
                         /\ UNCHANGED <<pc, processed, batch_start, path, exc>>
    /\ UNCHANGED <<rlVars, embVars, ucVars, auxVars>>
    /\ UNCHANGED <<adapter, tree, remote, index0, cache, run, all_chunks, pending,
                   points, fbCalls, fbFailed, batchStarts, snapshot>>

\* db_client.upload_chunk as the orchestrator reaches it
adapter_upload_chunk(ad, idx, cch, rej, rmt, c) ==
    IF ad = "qdrant" THEN upload_chunk(Collection, idx, cch, rej, rmt, c)
    ELSE {[r EXCEPT !.cache = cch] : r \in inmemory_upload_chunk(idx, rej, c)}

\* One iteration of the fallback loop of _process_batch_with_fallback:
\* upload_chunk for the next chunk of the batch; an exception is logged and
\* the loop goes on.
FallbackChunk ==
    /\ pc = "fallback"
    /\ \E r \in adapter_upload_chunk(adapter, index, cache, rejected, remote,
                                     all_chunks[item]) :
         LET raised == r.call.outcome = "raised"
             nxt == after_upload_chunk(raised, item, BatchEnd(batch_start))
         IN /\ index' = r.index
            /\ cache' = r.cache
            /\ rejected' = Refused(clean /\ ~r.fault, r.rejected)
            /\ clean' = (clean /\ ~r.fault)
            /\ last' = r.call
            /\ fbCalls' = Append(fbCalls, item)
            /\ fbFailed' = IF raised THEN Append(fbFailed, item) ELSE fbFailed
            /\ processed' = IF raised THEN processed ELSE processed + 1
            /\ pbar' = IF raised THEN pbar ELSE pbar + 1
            /\ pc' = nxt
            /\ exc' = IF nxt = "raised" THEN "Exception" ELSE exc
            /\ batch_start' = IF nxt = "loop" THEN next_batch_start(batch_start)
                              ELSE batch_start
            /\ item' = IF nxt = "fallback" THEN item + 1 ELSE item
            /\ emb_seen' = IF adapter = "qdrant"
                           THEN EmbSeen(emb_seen, EmbeddingOutcome(r.call))
                           ELSE emb_seen
    /\ UNCHANGED <<rlVars, embVars, ucVars, chunkVars, precheck, reqVars, lateVars>>
    /\ UNCHANGED <<adapter, tree, remote, index0, run, all_chunks, pending, points,
                   batchStarts, path, snapshot>>

\* The batch loop is exhausted: the progress bar closes, the summary is
\* logged, load_collection returns.
Finish ==
    /\ pc = "loop"
    /\ batch_start >= Len(all_chunks)
    /\ pc' = "done"
    /\ UNCHANGED <<rlVars, embVars, ucVars, auxVars>>
    /\ UNCHANGED <<adapter, tree, remote, index0, index, cache, run, all_chunks,
                   batch_start, pending, points, item, processed, pbar, fbCalls,
                   fbFailed, batchStarts, path, last, rejected, clean, snapshot, exc>>

\* The caller runs load_collection again on the same tree and collection
\* with the same adapter instance.
Rerun ==
    /\ pc \in {"done", "raised"}
    /\ run < MaxRuns
    /\ run' = run + 1
    /\ snapshot' = DOMAIN index
    /\ pc' = "idle"
    /\ all_chunks' = <<>>
    /\ batch_start' = 0
    /\ pending' = {}
    /\ points' = <<>>
    /\ item' = 0
    /\ processed' = 0
    /\ pbar' = 0
    /\ fbCalls' = <<>>
    /\ fbFailed' = <<>>
    /\ batchStarts' = <<>>
    /\ path' = ""
    /\ last' = NoCall
    /\ clean' = TRUE
    /\ exc' = ""
    /\ emb_seen' = "none"
    /\ UNCHANGED <<rlVars, embVars, ucVars, chunkVars, precheck, reqVars, lateVars>>
    /\ UNCHANGED <<adapter, tree, remote, index0, index, cache, rejected>>

Next ==
    \/ Load
    \/ BeginBatch
    \/ PreparePoint
    \/ BulkWrite
    \/ InMemoryBatchChunk
    \/ FallbackChunk
    \/ Finish
    \/ Rerun

Spec == Init /\ [][Next]_vars

\* No adapter upload call has been made in this run of load_collection.
NoUploadCall ==
    /\ batchStarts = <<>>
    /\ fbCalls = <<>>
    /\ last = NoCall
    /\ index = index0 \/ DOMAIN index = snapshot

\* C13: when the adapter reports the collection as not found load_collection
\* raises ValueError, when the root path does not exist it raises
\* FileNotFoundError, and in both cases neither upload_chunks_batch nor
\* upload_chunk is called.
C13_PrechecksGuardUploads ==
    /\ (pc # "idle" /\ precheck.info = "notfound") =>
            pc = "raised" /\ exc = "ValueError" /\ NoUploadCall
    /\ (pc # "idle" /\ ~precheck.path_exists) =>
            pc = "raised" /\ exc = "FileNotFoundError" /\ NoUploadCall

\* The root path holds no file whose name ends with ".md".
NoMdFile == \A i \in 1..Len(tree) : ~EndsWithMd(tree[i].name)

PrechecksPassed == pc # "idle" /\ precheck.path_exists /\ precheck.info = "ok"

\* C15: a run over a root path with no .md documents completes without
\* error and calls neither upload_chunks_batch nor upload_chunk.
C15_NoDocumentsNoUpload ==
    (PrechecksPassed /\ NoMdFile) => pc = "done" /\ exc = "" /\ NoUploadCall

C15_Witness ==
    /\ PrechecksPassed /\ NoMdFile
    /\ Len(tree) > 0
    /\ pc = "done"
    /\ adapter = "qdrant"

\* C14: load_collection raises when the embedding service is unreachable
\* after the retries: a run whose get_embedding calls all raised does not
\* return normally.
C14_UnreachableEmbeddingIsFatal ==
    emb_seen = "all_failed" => pc # "done"

\* The same for the Qdrant adapter alone, and for every adapter without the
\* type of the exception.
C13_QdrantOrUntyped ==
    /\ (pc # "idle" /\ precheck.info = "notfound") =>
            /\ pc = "raised"
            /\ adapter = "qdrant" => exc = "ValueError"
            /\ NoUploadCall
    /\ (pc # "idle" /\ ~precheck.path_exists) =>
            pc = "raised" /\ exc = "FileNotFoundError" /\ NoUploadCall

(***************************************************************************)
(* Claims about load_collection (Spec)                                     *)
(***************************************************************************)
\* The flat chunk list of the tree, which every run rebuilds.
TreeChunks == collect_all_chunks(discover_md_files(tree))

\* Chunk positions a+1 .. b in order.
Range(a, b) == [k \in 1..(b - a) |-> a + k]

IsPrefix(s, t) == Len(s) <= Len(t) /\ \A k \in 1..Len(s) : s[k] = t[k]

\* batch_start of the batch begun last in this run.
LastStart == batchStarts[Len(batchStarts)]

\* Primary ids of the chunks of the batch starting at start.
BatchIds(start) ==
    {generate_point_id(all_chunks[i].file, all_chunks[i].cid) :
        i \in (start + 1)..BatchEnd(start)}

\* C1: starting from an empty collection, every point the runs store sits
\* under the primary id of a chunk of the documents (no second point for a
\* chunk, whatever mix of bulk writes and per-item fallbacks stored them),
\* and a run over a collection that already holds every chunk leaves the set
\* of point ids, hence the point count, as it was.
C1_DedupOnReingest ==
    index0 = EmptyIndex =>
        /\ DOMAIN index \subseteq PrimaryIds(TreeChunks)
        /\ (run >= 2 /\ snapshot = PrimaryIds(TreeChunks)) =>
              /\ DOMAIN index = snapshot
              /\ Cardinality(DOMAIN index) = Cardinality(snapshot)

C1_Witness ==
    /\ adapter = "qdrant"
    /\ run = 2
    /\ pc = "done"
    /\ snapshot = PrimaryIds(TreeChunks)
    /\ Cardinality(snapshot) >= 2
    /\ path = "fallback"
    /\ last.outcome = "skipped"

\* C4: once upload_chunks_batch has raised for a batch, upload_chunk is
\* called for the chunks of that batch in batch order, each once: during the
\* fallback the calls made are the chunks before the current one, and after
\* it all chunks of the batch, whether or not some of the calls raised.
C4_FallbackCoversBatch ==
    path = "fallback" =>
        /\ pc = "fallback" => fbCalls = Range(LastStart, item - 1)
        /\ pc # "fallback" => fbCalls = Range(LastStart, BatchEnd(LastStart))

C4_Witness ==
    /\ path = "fallback"
    /\ pc = "loop"
    /\ Len(fbCalls) >= 2
    /\ fbFailed # <<>>
    /\ fbFailed[1] = LastStart + 1

\* A batch of a first run into an empty collection has ended, and nothing
\* went wrong in the run except that the index refuses one point of the batch.
C5_Premise ==
    /\ run = 1
    /\ index0 = EmptyIndex
    /\ clean
    /\ pc \in {"loop", "done"}
    /\ batchStarts # <<>>
    /\ rejected # {}
    /\ rejected \subseteq BatchIds(LastStart)

\* C5: in a first run into an empty collection in which nothing goes wrong
\* except that the index refuses one point of the batch, the batch ends with
\* all its other points stored (count - 1 of them, and counted as processed)
\* and with the refused chunk, and only it, logged as failed.
C5_PartialFailure ==
    C5_Premise =>
        LET ids == BatchIds(LastStart)
            count == BatchEnd(LastStart) - LastStart
        IN /\ DOMAIN index \cap ids = ids \ rejected
           /\ Cardinality(DOMAIN index \cap ids) = count - 1
           /\ processed = count - 1
           /\ Len(fbFailed) = 1
           /\ generate_point_id(all_chunks[fbFailed[1]].file,
                                all_chunks[fbFailed[1]].cid) \in rejected

C5_Witness ==
    /\ C5_Premise
    /\ adapter = "qdrant"
    /\ BatchEnd(LastStart) - LastStart >= 2
    /\ path = "fallback"
    /\ processed = 1

\* The batch_start values of a flat list of n chunks.
AllBatchStarts(n) ==
    [k \in 1..((n + BATCH_SIZE - 1) \div BATCH_SIZE) |-> (k - 1) * BATCH_SIZE]

PrecheckExceptions == {"FileNotFoundError", "ValueError", "CollectionNotFoundError",
                       "DatabaseConnectionError", "QdrantError"}

C6_Safety ==
    /\ IsPrefix(batchStarts, AllBatchStarts(Len(all_chunks)))
    /\ pc = "done" => batchStarts = AllBatchStarts(Len(all_chunks))
    /\ pc = "raised" => batchStarts = <<>> /\ exc \in PrecheckExceptions

InBatchLoop == pc \in {"loop", "prepare", "imbatch", "fallback"}

\* Steps load_collection has left at most: four per chunk of the batches not
\* yet finished, less those the current batch has taken.
Remaining ==
    LET n == Len(all_chunks)
        left == 4 * (n - Min(batch_start, n))
        len == BatchEnd(batch_start) - batch_start
    IN IF pc = "loop" THEN left + 1
       ELSE IF pc = "prepare" THEN left - (len - Cardinality(pending))
       ELSE IF pc = "imbatch" THEN left - (item - batch_start - 1)
       ELSE IF pc = "fallback" THEN left - len - 1 - (item - batch_start - 1)
       ELSE 0

\* Inside the batch loop the next step has what it needs: a chunk of the
\* current batch to work on, and the format decision for the prepare phase.
C6_CanStep ==
    /\ pc \in {"imbatch", "fallback"} => item \in BatchItems
    /\ pc = "prepare" => pending \subseteq BatchItems /\ Collection \in DOMAIN cache

\* C6: the batches are begun in list order, each once, and load_collection
\* returns normally only with every batch begun; an exception leaves it only
\* from its pre-checks, before any batch; and every step inside the batch
\* loop brings it closer to its return.
C6_EveryBatchOnce ==
    /\ [](C6_Safety /\ C6_CanStep)
    /\ [][InBatchLoop => Remaining' < Remaining]_vars

C6_Witness ==
    /\ pc = "done"
    /\ Len(batchStarts) >= 2
    /\ path = "fallback"
    /\ fbFailed # <<>>
    /\ ~clean

\* C37: over a whole ingestion run the cumulative progress reported to the
\* progress indicator never exceeds the number of chunks in the flat list
\* (the indicator's total), batches whose bulk write fails after the prepare
\* phase and that the per-item fallback processes again included.
C37_ProgressWithinTotal == pbar <= Len(all_chunks)

(***************************************************************************)
(* SpecRL: RateLimiter.acquire, called by two threads.                     *)
(* Time is counted in ticks, TimeWindow ticks to the time_window; the      *)
(* clock never runs backwards and time.sleep(d) returns no earlier than d  *)
(* after it was called.                                                    *)
(***************************************************************************)
SeqMin(cs) == CHOOSE x \in {cs[i] : i \in DOMAIN cs} : \A i \in DOMAIN cs : x <= cs[i]

KeptAfter(cutoff_time, call_time) == call_time > cutoff_time

\* RateLimiter._clean_old_calls
clean_old_calls(cs, t) ==
    LET cutoff_time == t - TimeWindow
    IN SelectSeq(cs, LAMBDA call_time : KeptAfter(cutoff_time, call_time))

over_limit_strict(cs, mc) == Len(cs) > mc

\* acquire's test `len(self.calls[key]) >= self.max_calls`
over_limit(cs, mc) == Len(cs) >= mc

\* acquire's wait_time
wait_time(cs, t) == TimeWindow - (t - SeqMin(cs))

\* Mutant: the lock is given up for the time of the sleep.
lock_during_sleep_released(t) == NoThread

\* `time.sleep(wait_time)` is inside `with self.lock:`: who holds the lock
\* while thread t sleeps.
lock_during_sleep(t) == t

InitRL ==
    /\ \E mc \in 1..MaxCalls : RLConstructed(mc)
    /\ IngestConstructed("inmemory", <<>>, InMemoryConfig, EmptyIndex)
    /\ EmbNotCalled(<<>>, "")
    /\ AuxParked
    /\ NoAdapterCall("adrs")

RLFrame == UNCHANGED <<ingestVars, embVars, ucVars, auxVars, max_calls>>

\* A thread calls acquire(key) and waits for the lock.
AcquireCall(t, k) ==
    /\ rl_pc[t] = "idle"
    /\ started["default"] + started["index"] < MaxAcquires
    /\ rl_pc' = [rl_pc EXCEPT ![t] = "lock"]
    /\ rl_key' = [rl_key EXCEPT ![t] = k]
    /\ started' = [started EXCEPT ![k] = @ + 1]
    /\ first_call' = [first_call EXCEPT ![k] = IF @ = -1 THEN now ELSE @]
    /\ UNCHANGED <<now, calls, lock, current_time, wake_at, admitted>>
    /\ RLFrame

\* The thread gets the lock, reads the clock, cleans the key's window and
\* either goes to sleep, still holding the lock, or goes on to record.
AcquireEnter(t) ==
    /\ rl_pc[t] = "lock"
    /\ lock = NoThread
    /\ LET k == rl_key[t]
           cs == clean_old_calls(calls[k], now)
       IN /\ current_time' = [current_time EXCEPT ![t] = now]
          /\ calls' = [calls EXCEPT ![k] = cs]
          /\ IF over_limit(cs, max_calls) /\ wait_time(cs, now) > 0
             THEN /\ rl_pc' = [rl_pc EXCEPT ![t] = "sleep"]
                  /\ wake_at' = [wake_at EXCEPT ![t] = now + wait_time(cs, now)]
                  /\ lock' = lock_during_sleep(t)
             ELSE /\ rl_pc' = [rl_pc EXCEPT ![t] = "record"]
                  /\ lock' = t
                  /\ UNCHANGED wake_at
    /\ UNCHANGED <<now, rl_key, started, first_call, admitted>>
    /\ RLFrame

\* time.sleep returns; the clock is read again and the window cleaned again.
AcquireWake(t) ==
    /\ rl_pc[t] = "sleep"
    /\ now >= wake_at[t]
    /\ current_time' = [current_time EXCEPT ![t] = now]
    /\ calls' = [calls EXCEPT ![rl_key[t]] = clean_old_calls(@, now)]
    /\ rl_pc' = [rl_pc EXCEPT ![t] = "record"]
    /\ UNCHANGED <<now, lock, rl_key, wake_at, started, first_call, admitted>>
    /\ RLFrame

\* Mutant: the lock is kept when acquire returns.
lock_after_acquire_kept(t) == t

\* The end of `with self.lock:`: who holds the lock once thread t has left
\* the block.
lock_after_acquire(t) == NoThread

\* The call is recorded, the lock released, and acquire returns.
AcquireRecord(t) ==
    /\ rl_pc[t] = "record"
    /\ calls' = [calls EXCEPT ![rl_key[t]] = Append(@, current_time[t])]
    /\ admitted' = [admitted EXCEPT ![rl_key[t]] = Append(@, current_time[t])]
    /\ lock' = lock_after_acquire(t)
    /\ rl_pc' = [rl_pc EXCEPT ![t] = "idle"]
    /\ UNCHANGED <<now, rl_key, current_time, wake_at, started, first_call>>
    /\ RLFrame

Tick ==
    /\ now < MaxTime
    /\ now' = now + 1
    /\ UNCHANGED <<calls, lock, rl_pc, rl_key, current_time, wake_at, started,
                   first_call, admitted>>
    /\ RLFrame

NextRL ==
    \/ \E t \in Threads, k \in Keys : AcquireCall(t, k)
    \/ \E t \in Threads : AcquireEnter(t)
    \/ \E t \in Threads : AcquireWake(t)
    \/ \E t \in Threads : AcquireRecord(t)
    \/ Tick

SpecRL == InitRL /\ [][NextRL]_vars

\* C2: for every key, no TimeWindow consecutive ticks (an interval shorter
\* than the window) hold more than max_calls recorded calls, whatever the
\* interleaving of the threads; and once 2 * max_calls calls on a key are
\* recorded, at least one full window separates the first recorded call from
\* the last, and the first acquire call from the present.
C2_RateBound ==
    \A k \in Keys :
        LET a == admitted[k]
        IN /\ \A x \in 0..MaxTime :
                 Cardinality({i \in DOMAIN a : x <= a[i] /\ a[i] < x + TimeWindow})
                     <= max_calls
           /\ Len(a) >= 2 * max_calls =>
                 /\ a[2 * max_calls] - a[1] >= TimeWindow
                 /\ now - first_call[k] >= TimeWindow

C2_Witness ==
    /\ max_calls = 2
    /\ Len(admitted["default"]) = 2 * max_calls
    /\ admitted["default"][3] - admitted["default"][1] = TimeWindow
    /\ admitted["default"][4] = admitted["default"][3]
    /\ \E t \in Threads : wake_at[t] = admitted["default"][3]

\* The threads between acquire's first reading of the clock and its append.
InCycle == {t \in Threads : rl_pc[t] \in {"sleep", "record"}}

\* The calls of acquire(k) that have not returned yet.
Pending(k) == {t \in Threads : rl_pc[t] # "idle" /\ rl_key[t] = k}

\* C34: acquire's check-clean-wait-record cycle is one critical section: no
\* two acquire calls are between check and record at the same time (the one
\* that is holds the lock, through its sleep as well), a call goes to sleep
\* at most once, from its check, and records after it, and every call
\* appends exactly one timestamp, when it returns.
C34_OneCriticalSection ==
    /\ [](/\ Cardinality(InCycle) <= 1
          /\ \A t \in Threads : t \in InCycle <=> lock = t
          /\ \A k \in Keys : started[k] = Len(admitted[k]) + Cardinality(Pending(k)))
    /\ [][\A t \in Threads :
            /\ (rl_pc[t] # "sleep" /\ rl_pc'[t] = "sleep") => rl_pc[t] = "lock"
            /\ (rl_pc[t] = "sleep" /\ rl_pc'[t] # "sleep") => rl_pc'[t] = "record"
            /\ (rl_pc[t] # "lock" /\ rl_pc'[t] = "lock") => rl_pc[t] = "idle"
            /\ Len(calls'[rl_key[t]]) > Len(calls[rl_key[t]]) =>
                  \E u \in Threads :
                     /\ rl_pc[u] = "record" /\ rl_pc'[u] = "idle"
                     /\ calls'[rl_key[u]] = Append(calls[rl_key[u]], current_time[u])]_vars

C34_Witness ==
    \E t, u \in Threads :
        /\ rl_pc[t] = "sleep" /\ lock = t /\ now < wake_at[t]
        /\ rl_pc[u] = "lock" /\ rl_key[u] = rl_key[t]
        /\ Len(admitted[rl_key[t]]) >= 1

(***************************************************************************)
(* FairSpecRL: the two threads calling acquire() on the default key, with  *)
(* a clock that never stops.  Once the clock shows MaxTime, a further tick *)
(* moves every stored time one tick back instead of the clock forward; a   *)
(* stored time a whole window or more behind the clock stays where it is,  *)
(* as _clean_old_calls drops it whatever its value.  A thread that can     *)
(* take a step takes one, and time.sleep returns once its time has passed. *)
(***************************************************************************)
ShiftBack(x) == IF x > 0 THEN x - 1 ELSE 0

TickBeyond ==
    /\ now = MaxTime
    /\ calls' = [k \in Keys |-> [i \in DOMAIN calls[k] |-> ShiftBack(calls[k][i])]]
    /\ wake_at' = [t \in Threads |-> ShiftBack(wake_at[t])]
    /\ current_time' = [t \in Threads |-> ShiftBack(current_time[t])]
    /\ admitted' = [k \in Keys |->
                        [i \in DOMAIN admitted[k] |-> ShiftBack(admitted[k][i])]]
    /\ first_call' = [k \in Keys |->
                          IF first_call[k] = -1 THEN -1 ELSE ShiftBack(first_call[k])]
    /\ UNCHANGED <<now, lock, rl_pc, rl_key, started>>
    /\ RLFrame

NextRLFair ==
    \/ \E t \in Threads : AcquireCall(t, "default")
    \/ \E t \in Threads : AcquireEnter(t)
    \/ \E t \in Threads : AcquireWake(t)
    \/ \E t \in Threads : AcquireRecord(t)
    \/ Tick
    \/ TickBeyond

FairSpecRL ==
    /\ InitRL
    /\ [][NextRLFair]_vars
    /\ WF_vars(Tick \/ TickBeyond)
    /\ \A t \in Threads :
          /\ WF_vars(AcquireEnter(t))
          /\ WF_vars(AcquireWake(t))
          /\ WF_vars(AcquireRecord(t))

\* C35: every acquire call on a limiter with max_calls >= 1 eventually
\* returns.
C35_AcquireReturns ==
    \A t \in Threads : (rl_pc[t] # "idle") ~> (rl_pc[t] = "idle")

C35_Witness ==
    \E t \in Threads :
        /\ rl_pc[t] = "idle"
        /\ started[rl_key[t]] = MaxAcquires
        /\ Len(admitted[rl_key[t]]) = MaxAcquires
        /\ max_calls = 1
        /\ now = MaxTime

(***************************************************************************)
(* SpecEmb: one call of get_embedding.  Every requests.post either answers *)
(* (200 with the embedding of the prompt in its body, or another status)   *)
(* or raises one of the requests exceptions the loop catches.              *)
(***************************************************************************)
EmbTexts == {<<>>, <<"w1">>, <<"w1", "w2">>, <<"w1", "w2", "w3">>}

OllamaUrls == {"http://localhost:11434/api/embeddings", "http://ollama:11434/api/embeddings"}

PostOutcomes == {"200", "500", "Timeout", "ConnectionError", "RequestException"}

\* text[:max_length]
truncate(text) == SubSeq(text, 1, Min(Len(text), MaxTextLength))

has_next_attempt_off_by_one(a) == a <= max_attempts

\* `for attempt in range(1, max_attempts + 1)`, and the test before the
\* backoff sleep: is there an attempt after attempt a?
has_next_attempt(a) == a < max_attempts

\* Mutant: every sleep lasts base_delay.
backoff_delay_constant(a) == base_delay

\* Exponential backoff: base_delay * 2 ** (attempt - 1)
backoff_delay(a) == base_delay * 2 ^ (a - 1)

\* The RuntimeError raised after the loop.
EmbeddingFailure(url) ==
    [kind |-> "RuntimeError", service |-> "Ollama", url |-> url, attempts |-> max_attempts]

InitEmb ==
    /\ \E text \in EmbTexts, url \in OllamaUrls : EmbNotCalled(text, url)
    /\ IngestConstructed("inmemory", <<>>, InMemoryConfig, EmptyIndex)
    /\ RLConstructed(1)
    /\ NoAdapterCall("adrs")
    /\ AuxParked

EmbFrame == UNCHANGED <<ingestVars, rlVars, ucVars, auxVars, emb_text, ollama_url>>

\* get_embedding is called: the loop starts with attempt 1.
EmbCall ==
    /\ emb_pc = "idle"
    /\ emb_pc' = "attempt"
    /\ attempt' = 1
    /\ UNCHANGED <<acquires, posts, sleeps, emb_result>>
    /\ EmbFrame

\* Mutant: the limiter is asked once per call, before the first attempt.
acquire_before_first_post_only(a) == a = 1

\* `embedding_rate_limiter.acquire()` is the first statement of the try block
\* of every pass of the loop: does pass a acquire?
acquire_before_post(a) == TRUE

\* embedding_rate_limiter.acquire() of one pass of the loop; it returns once
\* the limiter admits the call.
EmbAcquire ==
    /\ emb_pc = "attempt"
    /\ acquires' = IF acquire_before_post(attempt) THEN acquires + 1 ELSE acquires
    /\ emb_pc' = "acquired"
    /\ UNCHANGED <<attempt, posts, sleeps, emb_result>>
    /\ EmbFrame

\* Mutant: a request error that is neither a timeout nor a refused connection
\* leaves the loop.
attempt_failure_handled_transport_only(o) == o \in {"500", "Timeout", "ConnectionError"}

\* The failed attempts after which the loop goes on: the else branch of the
\* status test and the three except clauses; any other exception propagates.
attempt_failure_handled(o) ==
    o \in {"500", "Timeout", "ConnectionError", "RequestException"}

\* requests.post of the same pass, and what its answer leads to.
EmbAttempt(o) ==
    /\ emb_pc = "acquired"
    /\ posts' = Append(posts, [prompt |-> truncate(emb_text), url |-> ollama_url,
                               outcome |-> o])
    /\ IF o = "200"
       THEN /\ emb_pc' = "returned"
            /\ emb_result' = [kind |-> "returned", value |-> Embed(truncate(emb_text))]
       ELSE IF ~attempt_failure_handled(o)
       THEN /\ emb_pc' = "raised"
            /\ emb_result' = [kind |-> o]
       ELSE IF has_next_attempt(attempt)
       THEN /\ emb_pc' = "backoff"
            /\ UNCHANGED emb_result
       ELSE /\ emb_pc' = "raised"
            /\ emb_result' = EmbeddingFailure(ollama_url)
    /\ UNCHANGED <<attempt, acquires, sleeps>>
    /\ EmbFrame

\* time.sleep(delay), then the next pass of the loop.
EmbBackoff ==
    /\ emb_pc = "backoff"
    /\ sleeps' = Append(sleeps, backoff_delay(attempt))
    /\ attempt' = attempt + 1
    /\ emb_pc' = "attempt"
    /\ UNCHANGED <<acquires, posts, emb_result>>
    /\ EmbFrame

NextEmb ==
    \/ EmbCall
    \/ EmbAcquire
    \/ \E o \in PostOutcomes : EmbAttempt(o)
    \/ EmbBackoff

SpecEmb == InitEmb /\ [][NextEmb]_vars

\* The caller's thread runs on, and every post ends (it has a timeout).
FairSpecEmb == SpecEmb /\ WF_vars(NextEmb)

EmbDone == emb_pc \in {"returned", "raised"}

Answered200(i) == posts[i].outcome = "200"

C3_Safety ==
    /\ Len(posts) <= 3
    /\ \A i \in DOMAIN posts :
          Answered200(i) =>
              /\ i = Len(posts)
              /\ emb_pc = "returned"
              /\ emb_result = [kind |-> "returned", value |-> Embed(posts[i].prompt)]
    /\ emb_pc = "returned" => posts # <<>> /\ Answered200(Len(posts))
    /\ (Len(posts) = 3 /\ \A i \in DOMAIN posts : ~Answered200(i)) =>
          /\ emb_pc = "raised"
          /\ emb_result.kind = "RuntimeError"
          /\ emb_result.service = "Ollama"
          /\ emb_result.url = ollama_url
    /\ emb_pc = "raised" => Len(posts) = 3 /\ \A i \in DOMAIN posts : ~Answered200(i)

\* C3: every call of get_embedding ends, having posted at most 3 times; an
\* attempt that answers 200 is the last one and its vector is what the call
\* returns; and after 3 failed attempts the call has raised an error that
\* names the embedding service (Ollama) and the URL it was asked at.
C3_AtMostThreeAttempts == []C3_Safety /\ <>EmbDone

C3_Witness ==
    /\ emb_pc = "returned"
    /\ Len(posts) = 3
    /\ posts[1].outcome = "Timeout"
    /\ posts[2].outcome = "500"
    /\ sleeps = <<1, 2>>

\* C16: get_embedding acquires the embedding limiter exactly once immediately
\* before every network attempt: the acquire calls made equal the POSTs made,
\* plus the one acquire whose POST is about to be sent.
C16_AcquirePerAttempt ==
    /\ acquires = Len(posts) + (IF emb_pc = "acquired" THEN 1 ELSE 0)
    /\ EmbDone => acquires = Len(posts)

C16_Witness ==
    /\ emb_pc = "raised"
    /\ acquires = 3
    /\ Len(posts) = 3

(***************************************************************************)
(* SpecUC: single calls of the adapters against a collection that may      *)
(* already hold points: somebody else's point under a chunk's primary id   *)
(* (and under its fallback id), or the chunk's own point with other text.  *)
(***************************************************************************)
UCCollections == {"adrs", "docs"}

UCTexts == {<<"w1">>, <<"w2">>}

\* Chunk 1 of FileA with either text, its chunk 2, and chunk 1 of FileB.
UCChunks ==
    {[text |-> t, file |-> FileA, cid |-> 1] : t \in UCTexts}
    \cup {[text |-> <<"w1">>, file |-> FileA, cid |-> 2],
          [text |-> <<"w1">>, file |-> FileB, cid |-> 1]}

\* The point an earlier run stored for chunk 1 of FileA, whose text was then
\* <<"w2">>.
OwnPoint ==
    [vector |-> Embed(<<"w2">>),
     payload |-> [chunk_text |-> <<"w2">>, source_file |-> FileA, chunk_id |-> 1]]

UCInitIndexes(ad) ==
    IF ad = "inmemory" THEN {EmptyIndex}
    ELSE LET p == generate_point_id(FileA, 1)
             f == generate_collision_point_id(FileA, 1, <<"w1">>)
         IN {EmptyIndex, p :> ForeignPoint, p :> OwnPoint,
             (p :> ForeignPoint) @@ (f :> ForeignPoint)}

\* The orders in which the prepare futures of n chunks can complete
\* (as_completed), or the list order of the sequential loop.
CompletionOrders(n, parallel) ==
    IF parallel
    THEN {o \in [1..n -> 1..n] : \A i, j \in 1..n : o[i] = o[j] => i = j}
    ELSE {[i \in 1..n |-> i]}

\* Mutant: the points are written one request each.
upload_batch_points_requests_per_point(points_) ==
    [k \in 1..Len(points_) |-> [m |-> "put", ids |-> {points_[k].id}]]

\* The requests of _upload_batch_points: one PUT carrying all the points.
upload_batch_points_requests(points_) == <<[m |-> "put", ids |-> PointIds(points_)]>>

\* QdrantVectorDatabase.upload_chunks_batch: every result the call can have.
\* A chunk whose embedding fails is logged and left out of the points.
upload_chunks_batch(coll, idx, cch, rmt, chunks) ==
    IF chunks = <<>>
    THEN {[index |-> idx, cache |-> cch, fault |-> FALSE, points |-> <<>>,
           call |-> CallRecord("upload_chunks_batch", <<>>, 0, "returned", {}, {})]}
    ELSE LET n == Len(chunks)
             parallel == use_parallel(n)
         IN UNION { UNION { UNION {
              LET h == ensure_hybrid_collection_cached(cch, coll, rmt, io)
                  done == SelectSeq(order, LAMBDA i : i \notin failed)
                  points_ == [k \in 1..Len(done) |->
                                IF parallel
                                THEN prepare_point_parallel(chunks[done[k]], h.is_hybrid)
                                ELSE prepare_point_sequential(chunks[done[k]], h.is_hybrid)]
              IN { LET w == put_points(idx, points_, {}, po)
                   IN [index |-> w.index, cache |-> h.cache,
                       fault |-> h.fault \/ failed # {} \/ w.fault \/ w.rejected # {},
                       points |-> points_,
                       call |-> CallRecord("upload_chunks_batch",
                                           h.reqs \o upload_batch_points_requests(points_),
                                           n, IF w.resp_ok THEN "stored" ELSE "raised",
                                           PointIds(points_), {})]
                   : po \in PutOutcomes(points_) }
              : failed \in SUBSET (1..n) }
              : order \in CompletionOrders(n, parallel) }
              : io \in InfoOutcomes }

\* One primary-id derivation: who derived it, from what, and the id.
Derivation(by, coll, file_name, chunk_id, text, id) ==
    [by |-> by, collection |-> coll, file |-> file_name, cid |-> chunk_id,
     text |-> text, id |-> id]

\* Every layout the remote collection can have: with or without a sparse
\* vector slot, the dense vector anonymous or named "dense".
AllRemoteConfigs ==
    {[sparse_vectors |-> s, dense_named |-> d] : s \in BOOLEAN, d \in BOOLEAN}

\* The chunk lists given to upload_chunks_batch: chunk 1 of FileA alone, or
\* with its chunk 2.
UCBatches ==
    {<<[text |-> <<"w1">>, file |-> FileA, cid |-> 1]>>,
     <<[text |-> <<"w1">>, file |-> FileA, cid |-> 1],
       [text |-> <<"w1">>, file |-> FileA, cid |-> 2]>>}

InitUC ==
    /\ \E ad \in {"qdrant", "inmemory"}, coll \in UCCollections :
         \E rmt \in (IF ad = "qdrant" THEN RemoteConfigs ELSE {InMemoryConfig}),
            idx \in UCInitIndexes(ad) :
            /\ IngestConstructed(ad, <<>>, rmt, idx)
            /\ NoAdapterCall(coll)
    /\ RLConstructed(1)
    /\ EmbNotCalled(<<>>, "")
    /\ AuxParked

UCFrame ==
    UNCHANGED <<auxVars, rlVars, embVars, adapter, tree, remote, index0, pc, run, all_chunks,
                batch_start, pending, points, item, processed, pbar, fbCalls, fbFailed,
                batchStarts, path, rejected, snapshot, exc, collection, derived,
                derived_prev>>

\* An adapter call with result r; a point the index refused counts as a fault
\* of the call.
UCCalled(chunks, r) ==
    /\ ncalls < MaxAdapterCalls
    /\ ncalls' = ncalls + 1
    /\ arg' = chunks
    /\ before' = index
    /\ index' = r.index
    /\ cache' = r.cache
    /\ last' = r.call
    /\ clean' = ~(r.fault \/ r.rejected # {})
    /\ UCFrame

\* db_client.upload_chunk(collection, text, file_name, chunk_id, embed) on the
\* Qdrant adapter.
UCUploadChunk ==
    /\ adapter = "qdrant"
    /\ \E c \in UCChunks :
         \E r \in upload_chunk(collection, index, cache, {}, remote, c) :
            UCCalled(<<c>>, r)

\* db_client.upload_chunk on the in-memory adapter.
UCInMemoryUploadChunk ==
    /\ adapter = "inmemory"
    /\ \E c \in UCChunks :
         \E r \in inmemory_upload_chunk(index, {}, c) :
            UCCalled(<<c>>, r)

NextUC ==
    \/ UCUploadChunk
    \/ UCInMemoryUploadChunk

SpecUC == InitUC /\ [][NextUC]_vars

\* The last call was upload_chunk on the Qdrant adapter.
UploadChunkCalled == adapter = "qdrant" /\ last.op = "upload_chunk"

PrimaryId == generate_point_id(arg[1].file, arg[1].cid)

FallbackId == generate_collision_point_id(arg[1].file, arg[1].cid, arg[1].text)

\* The stored point pt carries the source name and sequence of chunk c.
PayloadMatches(pt, c) ==
    pt.payload.source_file = c.file /\ pt.payload.chunk_id = c.cid

PutRequests == {i \in DOMAIN last.reqs : last.reqs[i].m = "put"}

Untouched == \A id \in DOMAIN before : id \in DOMAIN index /\ index[id] = before[id]

\* Before the call the primary id held a point of another chunk and the
\* fallback id held nothing.
C7_Premise ==
    /\ UploadChunkCalled
    /\ PrimaryId \in DOMAIN before
    /\ ~PayloadMatches(before[PrimaryId], arg[1])
    /\ FallbackId \notin DOMAIN before

LastCheck == last.checks[Len(last.checks)]

LastCheckedId == IF Len(last.checks) = 1 THEN PrimaryId ELSE FallbackId

\* C40: the point existence check takes every answer other than 200, a
\* server error as well as 404, for 'point absent, no match': upload_chunk
\* then calls the embedding function and, when it has the vector, writes the
\* chunk under the id it asked for; of the outcomes of a check only a
\* transport failure ends upload_chunk, with an exception and before any
\* embedding or write.
C40_NonSuccessCheckMeansAbsent ==
    UploadChunkCalled =>
        /\ Len(last.checks) \in {1, 2}
        /\ LastCheck \in {"absent", "error"} =>
              /\ last.absent = {LastCheckedId}
              /\ last.embeds = 1
              /\ last.outcome \in {"stored", "raised"}
              /\ \A i \in PutRequests : last.reqs[i].ids = {LastCheckedId}
              /\ last.outcome = "stored" =>
                    /\ LastCheckedId \in DOMAIN index
                    /\ PayloadMatches(index[LastCheckedId], arg[1])
                    /\ index[LastCheckedId].payload.chunk_text = arg[1].text
        /\ LastCheck = "transport" =>
              /\ last.outcome = "raised"
              /\ last.embeds = 0 /\ PutRequests = {} /\ index = before
        /\ (last.outcome = "raised" /\ last.embeds = 0) => LastCheck = "transport"

C40_Witness ==
    /\ UploadChunkCalled
    /\ last.checks = <<"error">>
    /\ PrimaryId \in DOMAIN before
    /\ PayloadMatches(before[PrimaryId], arg[1])
    /\ last.outcome = "stored"
    /\ index[PrimaryId] # before[PrimaryId]

\* Before the call the primary id held a point with the chunk's source name
\* and sequence.
C8_Premise ==
    /\ UploadChunkCalled
    /\ PrimaryId \in DOMAIN before
    /\ PayloadMatches(before[PrimaryId], arg[1])

SeqRange(q) == {q[i] : i \in DOMAIN q}

\* The id upload_chunk asks the index about first.
IdsOfUploadChunk(coll, c) ==
    UNION {r.call.reqs[1].ids : r \in upload_chunk(coll, index, cache, {}, remote, c)}

\* The points upload_chunks_batch prepares for the chunk list cs.
PointsOfBatch(coll, cs) ==
    UNION {SeqRange(r.points) : r \in upload_chunks_batch(coll, index, cache, remote, cs)}

\* The id the in-memory adapter stores the chunk under.
IdsOfInMemory(c) == UNION {r.call.writes : r \in inmemory_upload_chunk(index, {}, c)}

DerivedFromPoints(by, coll, pts) ==
    {Derivation(by, coll, pt.payload.source_file, pt.payload.chunk_id,
                pt.payload.chunk_text, pt.id) : pt \in pts}

InitId ==
    /\ \E rmt \in RemoteConfigs : IngestConstructed("qdrant", <<>>, rmt, EmptyIndex)
    /\ \E coll \in UCCollections : NoAdapterCall(coll)
    /\ RLConstructed(1)
    /\ EmbNotCalled(<<>>, "")
    /\ AuxParked

Derived(coll, ds) ==
    /\ derived' = ds
    /\ derived_prev' = derived
    /\ collection' = coll
    /\ UNCHANGED <<ingestVars, rlVars, embVars, auxVars, arg, before, ncalls>>

DeriveByUploadChunk ==
    \E coll \in UCCollections, c \in UCChunks :
        /\ IdsOfUploadChunk(coll, c) # {}
        /\ Derived(coll, {Derivation("upload_chunk", coll, c.file, c.cid, c.text, id) :
                             id \in IdsOfUploadChunk(coll, c)})

DeriveByPrepareParallel ==
    \E coll \in UCCollections, c1 \in UCChunks, c2 \in UCChunks :
        /\ c1.file = c2.file /\ c1.cid < c2.cid
        /\ use_parallel(Len(<<c1, c2>>))
        /\ Derived(coll, DerivedFromPoints("prepare_points_parallel", coll,
                                           PointsOfBatch(coll, <<c1, c2>>)))

DeriveByPrepareSequential ==
    \E coll \in UCCollections, c \in UCChunks :
        /\ ~use_parallel(Len(<<c>>))
        /\ Derived(coll, DerivedFromPoints("prepare_points_sequential", coll,
                                           PointsOfBatch(coll, <<c>>)))

DeriveByInMemory ==
    \E coll \in UCCollections, c \in UCChunks :
        /\ IdsOfInMemory(c) # {}
        /\ Derived(coll, {Derivation("inmemory", coll, c.file, c.cid, c.text, id) :
                             id \in IdsOfInMemory(c)})

NextId ==
    \/ DeriveByUploadChunk
    \/ DeriveByPrepareParallel
    \/ DeriveByPrepareSequential
    \/ DeriveByInMemory

SpecId == InitId /\ [][NextId]_vars

\* C10: every place that derives a primary id -- upload_chunk, the parallel
\* and the sequential prepare of a batch, the in-memory adapter -- derives the
\* hash of "<source name>-<sequence>" and nothing else, so that two
\* derivations for the same source name and sequence give the same id
\* whatever the path, the call, the chunk text and the collection.
C10_PrimaryIdFunction ==
    \A d1 \in derived \cup derived_prev :
        /\ d1.id = Sha256Uuid(d1.file \o <<"-">> \o IntStr(d1.cid))
        /\ \A d2 \in derived \cup derived_prev :
              (d1.file = d2.file /\ d1.cid = d2.cid) => d1.id = d2.id

C10_Witness ==
    \E d1 \in derived, d2 \in derived_prev :
        /\ d1.file = d2.file /\ d1.cid = d2.cid
        /\ d1.by = "inmemory" /\ d2.by = "prepare_points_parallel"
        /\ d1.text # d2.text
        /\ d1.collection # d2.collection
        /\ d1.id = d2.id
        /\ \E d3 \in derived_prev : d3.id # d2.id

(***************************************************************************)
(* SpecChunk: chunk_text as a function of its text, applied to texts that  *)
(* are sequences of characters.  str.split() and " ".join() are computed   *)
(* character by character.                                                 *)
(***************************************************************************)
MaxChars == 4
MaxChunkSize == 3

Whitespace == {" "}

Alphabet == {"a", "b"} \cup Whitespace

\* "a b c d e", the text of the docstring-style example
ExampleText == <<"a", " ", "b", " ", "c", " ", "d", " ", "e">>

ChunkTexts == UNION {[1..n -> Alphabet] : n \in 0..MaxChars} \cup {ExampleText}

RECURSIVE SplitFrom(_, _, _)
SplitFrom(text, i, word) ==
    LET flush == IF word # <<>> THEN <<word>> ELSE <<>>
    IN IF i > Len(text) THEN flush
       ELSE IF text[i] \in Whitespace
            THEN flush \o SplitFrom(text, i + 1, <<>>)
            ELSE SplitFrom(text, i + 1, Append(word, text[i]))

\* text.split()
split(text) == SplitFrom(text, 1, <<>>)

\* " ".join(words)
RECURSIVE join(_)
join(words) ==
    IF words = <<>> THEN <<>>
    ELSE IF Len(words) = 1 THEN words[1]
    ELSE words[1] \o <<" ">> \o join(Tail(words))

\* chunk_text on a text: the windows of its words, each joined to a string
chunk_text_str(text, chunk_size, overlap) ==
    LET windows == chunk_text(split(text), chunk_size, overlap)
    IN [k \in 1..Len(windows) |-> join(windows[k])]

InitChunk ==
    /\ \E text \in ChunkTexts, chunk_size \in 1..MaxChunkSize :
         \E overlap \in 0..(chunk_size - 1) :
            ChunkTextNotCalled(text, chunk_size, overlap)
    /\ precheck = NoPrecheck
    /\ emb_seen = "none"
    /\ ConfigNotConstructed(Empty, Empty)
    /\ BatchNotCalled(0)
    /\ ExtraParked
    /\ AdapterConstructed([exists |-> FALSE, layout |-> InMemoryConfig])
    /\ IngestConstructed("inmemory", <<>>, InMemoryConfig, EmptyIndex)
    /\ RLConstructed(1)
    /\ EmbNotCalled(<<>>, "")
    /\ NoAdapterCall("adrs")

ChunkText ==
    /\ ct_pc = "idle"
    /\ ct_pc' = "returned"
    /\ ct_chunks' = chunk_text_str(ct_text, ct_size, ct_overlap)
    /\ UNCHANGED <<ingestVars, rlVars, embVars, ucVars, precheck, emb_seen, reqVars, lateVars,
                   ct_text, ct_size, ct_overlap>>

NextChunk == ChunkText

SpecChunk == InitChunk /\ [][NextChunk]_vars

\* the words of all chunks, in order
RECURSIVE WordsOfChunks(_)
WordsOfChunks(chunks) ==
    IF chunks = <<>> THEN <<>>
    ELSE split(Head(chunks)) \o WordsOfChunks(Tail(chunks))

\* C12: chunk_text returns, in order, the windows words[k*s : k*s + chunk_size]
\* with s = chunk_size - overlap, one for every k >= 0 with k*s below the number
\* of words; with overlap 0 the windows are disjoint and their concatenation
\* is the word sequence.
C12_Windows ==
    ct_pc = "returned" =>
        LET words == split(ct_text)
            n == Len(words)
            s == ct_size - ct_overlap
            K == {k \in 0..n : k * s < n}
        IN /\ Len(ct_chunks) = Cardinality(K)
           /\ \A k \in K :
                ct_chunks[k + 1] =
                    join(SubSeq(words, k * s + 1, Min(k * s + ct_size, n)))
           /\ ct_overlap = 0 =>
                /\ WordsOfChunks(ct_chunks) = words
                /\ \A k \in K : Len(split(ct_chunks[k + 1])) = Min(ct_size, n - k * s)

C12_Witness ==
    /\ ct_pc = "returned"
    /\ ct_text = ExampleText
    /\ ct_size = 2
    /\ ct_overlap = 0
    /\ ct_chunks = << <<"a", " ", "b">>, <<"c", " ", "d">>, <<"e">> >>

(***************************************************************************)
(* SpecReq: the operations of one QdrantVectorDatabase instance at the     *)
(* level of its HTTP requests: _make_request, the collection operations    *)
(* built on it, the hybrid-status cache, and the uploads.                  *)
(***************************************************************************)
MaxOperations == 3

\* The exceptions requests can raise for a request, each with its base
\* classes; ValueError stands for an error from outside requests.
Bases(cls) ==
    CASE cls = "ConnectTimeout" ->
            {"ConnectTimeout", "ConnectionError", "Timeout", "RequestException",
             "Exception"}
      [] cls = "ReadTimeout" -> {"ReadTimeout", "Timeout", "RequestException", "Exception"}
      [] cls = "ConnectionError" -> {"ConnectionError", "RequestException", "Exception"}
      [] cls = "TooManyRedirects" -> {"TooManyRedirects", "RequestException", "Exception"}
      [] cls = "ValueError" -> {"ValueError", "Exception"}
      [] OTHER -> {}

\* How one HTTP request ends: the index serves it and answers; it answers
\* 500, or 404, without serving it; an exception is raised before the index
\* has served it, or (a read timeout) possibly after.
RequestOutcomes ==
    {[cls |-> "", served |-> TRUE], [cls |-> "", served |-> FALSE],
     [cls |-> "404", served |-> FALSE]}
    \cup {[cls |-> c, served |-> FALSE] :
            c \in {"ConnectTimeout", "ConnectionError", "TooManyRedirects", "ValueError",
                   "ReadTimeout"}}
    \cup {[cls |-> "ReadTimeout", served |-> TRUE]}

\* How the existence probe of create_collection and delete_collection ends:
\* one outcome for each way _collection_exists goes on.
ProbeOutcomes ==
    {o \in RequestOutcomes : o.cls \in {"", "ConnectTimeout", "TooManyRedirects"}}

\* Mutant: the ConnectionError clause comes before the Timeout clause.
make_request_raises_connection_first(cls) ==
    IF cls = "" THEN ""
    ELSE IF "ConnectionError" \in Bases(cls) THEN "DatabaseConnectionError"
    ELSE IF "Timeout" \in Bases(cls) THEN "DatabaseTimeoutError"
    ELSE "DatabaseOperationError"

\* The except clauses of _make_request, in their order.
make_request_raises(cls) ==
    IF cls = "" THEN ""
    ELSE IF "Timeout" \in Bases(cls) THEN "DatabaseTimeoutError"
    ELSE IF "ConnectionError" \in Bases(cls) THEN "DatabaseConnectionError"
    ELSE IF "RequestException" \in Bases(cls) THEN "DatabaseOperationError"
    ELSE "DatabaseOperationError"

Acquire == [kind |-> "acquire", method |-> ""]

Http(method) == [kind |-> "http", method |-> method]

\* Mutant: the request is sent without asking the limiter.
make_request_events_unlimited(method) == <<Http(method)>>

\* What _make_request does before the answer: db_rate_limiter.acquire(), then
\* the request.
make_request_events(method) == <<Acquire, Http(method)>>

HybridLayout(enable_hybrid) ==
    [sparse_vectors |-> enable_hybrid, dense_named |-> enable_hybrid]

NoCollection == [exists |-> FALSE, layout |-> HybridLayout(FALSE)]

HttpMethod(what) ==
    CASE what \in {"get_collection", "list", "get_point", "get_info"} -> "get"
      [] what \in {"create", "put"} -> "put"
      [] what = "delete" -> "delete"
      [] what \in {"clear", "search"} -> "post"

\* The index serving a request on the collection: its answer and the
\* collection afterwards.
Serve(rmt, what, enable_hybrid) ==
    CASE what = "create" ->
            IF rmt.exists THEN [status |-> 409, remote |-> rmt]
            ELSE [status |-> 200,
                  remote |-> [exists |-> TRUE, layout |-> HybridLayout(enable_hybrid)]]
      [] what = "delete" -> [status |-> 200, remote |-> NoCollection]
      [] what = "list" -> [status |-> 200, remote |-> rmt]
      [] OTHER -> [status |-> IF rmt.exists THEN 200 ELSE 404, remote |-> rmt]

\* self._make_request(method, url) for one request and one way it ends.
make_request(rmt, what, enable_hybrid, o) ==
    LET ans == Serve(rmt, what, enable_hybrid)
        cls == IF o.cls = "404" THEN "" ELSE o.cls
        raised == make_request_raises(cls)
        status == IF raised # "" THEN 0
                  ELSE IF o.served THEN ans.status
                  ELSE IF o.cls = "404" THEN 404 ELSE 500
    IN [remote |-> IF o.served THEN ans.remote ELSE rmt,
        raised |-> raised,
        status |-> status,
        log |-> <<[method |-> HttpMethod(what), cls |-> cls, raised |-> raised,
                   status |-> status]>>,
        events |-> make_request_events(HttpMethod(what))]

\* Mutant: only a refused connection is taken for absence.
collection_exists_caught_connection_only == {"DatabaseConnectionError"}

\* The except clause of _collection_exists
collection_exists_caught == {"DatabaseConnectionError", "DatabaseTimeoutError"}

\* QdrantVectorDatabase._collection_exists
collection_exists(rmt, o) ==
    LET r == make_request(rmt, "get_collection", FALSE, o)
        assumed_absent == r.raised \in collection_exists_caught
    IN [remote |-> r.remote, log |-> r.log, events |-> r.events,
        raised |-> IF assumed_absent THEN "" ELSE r.raised,
        value |-> r.raised = "" /\ r.status = 200]

\* QdrantVectorDatabase.get_collection_info; value is the configuration read.
get_collection_info(rmt, o) ==
    LET r == make_request(rmt, "get_collection", FALSE, o)
    IN [remote |-> r.remote, log |-> r.log, events |-> r.events,
        raised |-> IF r.raised # "" THEN r.raised
                   ELSE IF r.status = 200 THEN ""
                   ELSE IF r.status = 404 THEN "QdrantCollectionNotFoundError"
                   ELSE "QdrantError",
        value |-> rmt.layout]

\* The classes an adapter error is an instance of.
ErrorBases(kind) ==
    IF kind = "QdrantCollectionNotFoundError"
    THEN {"QdrantCollectionNotFoundError", "CollectionNotFoundError", "QdrantError"}
    ELSE {kind}

\* Mutant: the except tuple lacks DatabaseTimeoutError.
inspection_errors_caught_no_timeout ==
    {"QdrantError", "DatabaseConnectionError", "DatabaseOperationError"}

\* The except tuple of _ensure_hybrid_collection_cached.
inspection_errors_caught ==
    {"QdrantError", "DatabaseConnectionError", "DatabaseTimeoutError",
     "DatabaseOperationError"}

OpResult(cch, rmt, log, events, raised, value) ==
    [cache |-> cch, remote |-> rmt, log |-> log, events |-> events, raised |-> raised,
     value |-> value]

\* Mutant: the status assumed after a failed inspection is returned but not
\* stored.
ensure_hybrid_collection_cached_http_assumed_not_stored(cch, coll, rmt, o) ==
    IF coll \in DOMAIN cch
    THEN OpResult(cch, rmt, <<>>, <<>>, "", cch[coll])
    ELSE LET g == get_collection_info(rmt, o)
             caught == ErrorBases(g.raised) \cap inspection_errors_caught # {}
         IN IF g.raised # "" /\ ~caught
            THEN OpResult(cch, g.remote, g.log, g.events, g.raised, FALSE)
            ELSE IF g.raised # ""
            THEN OpResult(cch, g.remote, g.log, g.events, "", FALSE)
            ELSE OpResult(cch @@ (coll :> detect_hybrid_from_info(g.value)), g.remote,
                          g.log, g.events, "", detect_hybrid_from_info(g.value))

\* QdrantVectorDatabase._ensure_hybrid_collection_cached with the request of
\* its get_collection_info call.
ensure_hybrid_collection_cached_http(cch, coll, rmt, o) ==
    IF coll \in DOMAIN cch
    THEN OpResult(cch, rmt, <<>>, <<>>, "", cch[coll])
    ELSE LET g == get_collection_info(rmt, o)
             caught == ErrorBases(g.raised) \cap inspection_errors_caught # {}
             is_hybrid == IF g.raised = "" THEN detect_hybrid_from_info(g.value)
                          ELSE FALSE
         IN IF g.raised # "" /\ ~caught
            THEN OpResult(cch, g.remote, g.log, g.events, g.raised, FALSE)
            ELSE OpResult(cch @@ (coll :> is_hybrid), g.remote, g.log, g.events, "",
                          is_hybrid)

\* QdrantVectorDatabase.create_collection
create_collection(cch, coll, rmt, enable_hybrid, o1, o2) ==
    LET e == collection_exists(rmt, o1)
    IN IF e.raised # ""
       THEN OpResult(cch, e.remote, e.log, e.events, e.raised, FALSE)
       ELSE IF e.value
       THEN LET g == get_collection_info(e.remote, o2)
                cached == IF coll \in DOMAIN cch THEN cch
                          ELSE cch @@ (coll :> detect_hybrid_from_info(g.value))
            IN OpResult(IF g.raised = "" THEN cached ELSE cch, g.remote,
                        e.log \o g.log, e.events \o g.events, g.raised, FALSE)
       ELSE LET r == make_request(e.remote, "create", enable_hybrid, o2)
                created == r.raised = "" /\ r.status = 200
            IN OpResult(IF created THEN (coll :> enable_hybrid) @@ cch ELSE cch,
                        r.remote, e.log \o r.log, e.events \o r.events,
                        IF r.raised # "" THEN r.raised
                        ELSE IF created THEN "" ELSE "QdrantError",
                        FALSE)

\* Mutant: delete_collection empties the cache.
PopEverything(cch, coll) == <<>>

\* Mutant: delete_collection leaves the cache as it is.
PopNothing(cch, coll) == cch

\* self._hybrid_collections_cache.pop(collection_name, None)
Pop(cch, coll) == [n \in DOMAIN cch \ {coll} |-> cch[n]]

\* QdrantVectorDatabase.delete_collection
delete_collection(cch, coll, rmt, o1, o2) ==
    LET e == collection_exists(rmt, o1)
    IN IF e.raised # ""
       THEN OpResult(cch, e.remote, e.log, e.events, e.raised, FALSE)
       ELSE LET r == make_request(e.remote, "delete", FALSE, o2)
                popped == r.raised = "" /\ r.status \in {200, 404}
            IN OpResult(IF popped THEN Pop(cch, coll) ELSE cch, r.remote,
                        e.log \o r.log, e.events \o r.events,
                        IF r.raised # "" THEN r.raised
                        ELSE IF r.status = 200
                        THEN (IF e.value THEN "" ELSE "QdrantCollectionNotFoundError")
                        ELSE IF r.status = 404 THEN "QdrantCollectionNotFoundError"
                        ELSE "QdrantError",
                        FALSE)

\* clear_collection, list_collections, search: one request, and an error
\* for any answer but 200.
single_request_operation(cch, rmt, what, o) ==
    LET r == make_request(rmt, what, FALSE, o)
    IN OpResult(cch, r.remote, r.log, r.events,
                IF r.raised # "" THEN r.raised
                ELSE IF r.status = 200 THEN ""
                ELSE IF what = "list" THEN "DatabaseOperationError" ELSE "QdrantError",
                FALSE)

RECURSIVE EventsOf(_)
EventsOf(reqs) ==
    IF reqs = <<>> THEN <<>>
    ELSE make_request_events(HttpMethod(Head(reqs).m)) \o EventsOf(Tail(reqs))

\* Whether a point carries its vector under the name "dense".
NamedDense(point) == "dense" \in DOMAIN point.vector

OtherCollection == "docs"

OtherRemote == [exists |-> TRUE, layout |-> HybridLayout(TRUE)]

ExistingCollections == {[exists |-> TRUE, layout |-> l] : l \in AllRemoteConfigs}

InitReq ==
    /\ \E rmt \in {NoCollection} \cup ExistingCollections : AdapterConstructed(rmt)
    /\ ChunkTextNotCalled(<<>>, 1, 0)
    /\ ConfigNotConstructed(Empty, Empty)
    /\ BatchNotCalled(0)
    /\ ExtraParked
    /\ precheck = NoPrecheck
    /\ emb_seen = "none"
    /\ IngestConstructed("qdrant", <<>>, InMemoryConfig, EmptyIndex)
    /\ RLConstructed(1)
    /\ EmbNotCalled(<<>>, "")
    /\ NoAdapterCall("adrs")

\* The assumed-status record after an operation: a format lookup whose
\* inspection failed sets it, the removal of the entry clears it, a creation
\* by create_collection marks it overwritten.
Assumed(was, op, cch, res) ==
    LET lst == res.log[Len(res.log)]
    IN IF /\ op = "format_lookup" /\ Collection \notin DOMAIN cch /\ res.log # <<>>
          /\ (res.log[1].raised # "" \/ res.log[1].status # 200)
       THEN "yes"
       ELSE IF Collection \notin DOMAIN res.cache THEN "no"
       ELSE IF /\ was = "yes" /\ op = "create_collection" /\ res.log # <<>>
               /\ lst.method = "put" /\ lst.status = 200
       THEN "overwritten"
       ELSE was

\* One operation of the adapter with result res; lookups is the number of
\* get_collection_info requests its _ensure_hybrid_collection_cached sent.
LookupOperation(op, given, res, named, lookups) ==
    /\ rq_n < MaxOperations
    /\ rq_n' = rq_n + 1
    /\ rq_cache' = res.cache
    /\ rq_remote' = res.remote
    /\ rq_last' = [op |-> op, arg |-> given, before |-> rq_cache, log |-> res.log,
                   events |-> res.events, raised |-> res.raised, value |-> res.value,
                   named |-> named, lookups |-> lookups]
    /\ rq_assumed' = Assumed(rq_assumed, op, rq_cache, res)
    /\ UNCHANGED <<ingestVars, rlVars, embVars, ucVars, chunkVars, precheck, emb_seen,
                   lateVars>>

\* An operation that makes no format lookup.
Operation(op, given, res, named) == LookupOperation(op, given, res, named, 0)

\* the get_collection_info requests among the requests of an upload
InfoRequests(reqs) == Cardinality({i \in DOMAIN reqs : reqs[i].m = "get_info"})

ReqCreateCollection ==
    /\ rq_n < MaxOperations
    /\ \E enable_hybrid \in BOOLEAN, o1 \in ProbeOutcomes, o2 \in RequestOutcomes :
         Operation("create_collection", enable_hybrid,
                   create_collection(rq_cache, Collection, rq_remote, enable_hybrid,
                                     o1, o2), {})

ReqDeleteCollection ==
    /\ rq_n < MaxOperations
    /\ \E o1 \in ProbeOutcomes, o2 \in RequestOutcomes :
         Operation("delete_collection", FALSE,
                   delete_collection(rq_cache, Collection, rq_remote, o1, o2), {})

ReqGetCollectionInfo ==
    /\ rq_n < MaxOperations
    /\ \E o \in RequestOutcomes :
         LET g == get_collection_info(rq_remote, o)
         IN Operation("get_collection_info", FALSE,
                      OpResult(rq_cache, g.remote, g.log, g.events, g.raised, FALSE), {})

ReqSingleRequest ==
    /\ rq_n < MaxOperations
    /\ \E what \in {"clear", "list", "search"}, o \in RequestOutcomes :
         Operation(what, FALSE,
                   single_request_operation(rq_cache, rq_remote, what, o), {})

\* The existence probe on its own; value is what it returned.
ReqCollectionExists ==
    /\ rq_n < MaxOperations
    /\ \E o \in RequestOutcomes :
         LET e == collection_exists(rq_remote, o)
         IN Operation("collection_exists", FALSE,
                      OpResult(rq_cache, e.remote, e.log, e.events, e.raised, e.value), {})

\* The format lookup the uploads start with, on its own.
ReqFormatLookup ==
    /\ rq_n < MaxOperations
    /\ \E o \in RequestOutcomes :
         LET h == ensure_hybrid_collection_cached_http(rq_cache, Collection,
                                                       rq_remote, o)
         IN LookupOperation("format_lookup", FALSE, h, {}, Len(h.log))

\* The same lookup for a second collection, which exists on the index with
\* the hybrid layout: its entry sits in the cache next to the first one's.
ReqFormatLookupOther ==
    /\ rq_n < MaxOperations
    /\ \E o \in ProbeOutcomes :
         LET h == ensure_hybrid_collection_cached_http(rq_cache, OtherCollection,
                                                       OtherRemote, o)
         IN LookupOperation("format_lookup_other", FALSE,
                            [h EXCEPT !.remote = rq_remote], {}, Len(h.log))

\* upload_chunk on the collection, which exists: the requests of the call
\* and the format of the point it sent; value tells whether every request of
\* the call was answered without fault.
ReqUploadChunk ==
    /\ rq_n < MaxOperations
    /\ rq_remote.exists
    /\ LET chunk == [text |-> <<"w1">>, file |-> FileA, cid |-> 1]
       IN \E r \in upload_chunk(Collection, EmptyIndex, rq_cache, {}, rq_remote.layout,
                                 chunk) :
            LookupOperation("upload_chunk", FALSE,
                      OpResult(r.cache, rq_remote, <<>>, EventsOf(r.call.reqs),
                               IF r.call.outcome = "raised" THEN "Exception" ELSE "",
                               ~r.fault),
                      {NamedDense(r.index[id]) : id \in DOMAIN r.index},
                      InfoRequests(r.call.reqs))

\* upload_chunks_batch on the collection, which exists; arg tells whether the
\* chunk list was non-empty.
ReqUploadChunksBatch ==
    /\ rq_n < MaxOperations
    /\ rq_remote.exists
    /\ \E chunks \in UCBatches \cup {<<>>} :
         \E r \in upload_chunks_batch(Collection, EmptyIndex, rq_cache,
                                       rq_remote.layout, chunks) :
            LookupOperation("upload_chunks_batch", chunks # <<>>,
                      OpResult(r.cache, rq_remote, <<>>, EventsOf(r.call.reqs),
                               IF r.call.outcome = "raised" THEN "Exception" ELSE "",
                               ~r.fault),
                      {NamedDense(r.points[i]) : i \in DOMAIN r.points},
                      InfoRequests(r.call.reqs))

NextReq ==
    \/ ReqCreateCollection
    \/ ReqDeleteCollection
    \/ ReqGetCollectionInfo
    \/ ReqCollectionExists
    \/ ReqSingleRequest
    \/ ReqFormatLookup
    \/ ReqFormatLookupOther
    \/ ReqUploadChunk
    \/ ReqUploadChunksBatch

SpecReq == InitReq /\ [][NextReq]_vars

\* C17: every HTTP request the adapter sends is preceded by exactly one
\* acquire on the index rate limiter made for that request.
C17_AcquireBeforeEveryRequest ==
    LET ev == rq_last.events
    IN \A i \in DOMAIN ev :
          /\ ev[i].kind = "http" => i > 1 /\ ev[i - 1].kind = "acquire"
          /\ ev[i].kind = "acquire" => i < Len(ev) /\ ev[i + 1].kind = "http"

C17_Witness ==
    /\ rq_last.op = "upload_chunk"
    /\ Len(rq_last.events) = 6
    /\ rq_last.events[6] = Http("put")

AdapterErrors ==
    {"DatabaseTimeoutError", "DatabaseConnectionError", "DatabaseOperationError",
     "QdrantError", "QdrantCollectionNotFoundError"}

\* C18: _make_request turns a timeout into DatabaseTimeoutError, a connection
\* failure into DatabaseConnectionError and any other transport or unexpected
\* failure into DatabaseOperationError; no operation built on it lets a raw
\* transport exception out.
C18_ThreeErrorKinds ==
    /\ \A i \in DOMAIN rq_last.log :
          LET q == rq_last.log[i]
          IN /\ "Timeout" \in Bases(q.cls) => q.raised = "DatabaseTimeoutError"
             /\ ("ConnectionError" \in Bases(q.cls) /\ "Timeout" \notin Bases(q.cls))
                    => q.raised = "DatabaseConnectionError"
             /\ (q.cls # "" /\ Bases(q.cls) \cap {"Timeout", "ConnectionError"} = {})
                    => q.raised = "DatabaseOperationError"
             /\ q.cls = "" => q.raised = ""
    /\ rq_last.log # <<>> => rq_last.raised \in AdapterErrors \cup {""}

C18_Witness ==
    /\ rq_last.op = "search"
    /\ rq_last.log[1].cls = "ConnectTimeout"
    /\ rq_last.raised = "DatabaseTimeoutError"

\* The lookup inspected the collection and the inspection failed: the
\* request raised, or was answered with another status than 200.
InspectionFailed ==
    /\ rq_last.op = "format_lookup"
    /\ rq_last.log # <<>>
    /\ rq_last.log[1].raised # "" \/ rq_last.log[1].status # 200

\* C20: when inspecting the collection's remote configuration fails
\* (connection, timeout, operation error, not found, other status), the
\* hybrid lookup does not raise and reports the collection as standard.
C20_FailedInspectionIsStandard ==
    InspectionFailed =>
        /\ rq_last.raised = ""
        /\ rq_last.value = FALSE
        /\ Collection \in DOMAIN rq_cache /\ rq_cache[Collection] = FALSE

C20_Witness ==
    /\ InspectionFailed
    /\ rq_last.log[1].cls = "ReadTimeout"
    /\ rq_remote.exists /\ rq_remote.layout.sparse_vectors
    /\ rq_last.value = FALSE

CachedBefore == Collection \in DOMAIN rq_last.before

EntryUnchanged ==
    /\ Collection \in DOMAIN rq_cache
    /\ rq_cache[Collection] = rq_last.before[Collection]

IsUpload == rq_last.op \in {"upload_chunk", "upload_chunks_batch"}

\* A cached status is what the lookup returns, without a request, and what
\* the points of an upload are formatted by.
CachedValueIsSeen ==
    /\ (CachedBefore /\ rq_last.op = "format_lookup") =>
            rq_last.value = rq_last.before[Collection] /\ rq_last.events = <<>>
    /\ (CachedBefore /\ IsUpload) => rq_last.named \subseteq {rq_last.before[Collection]}

\* The last request of the operation was answered with this status.
LastAnswer(method, status) ==
    /\ rq_last.log # <<>>
    /\ rq_last.log[Len(rq_last.log)].method = method
    /\ rq_last.log[Len(rq_last.log)].status = status

DeleteAnswered ==
    /\ rq_last.op = "delete_collection"
    /\ LastAnswer("delete", 200) \/ LastAnswer("delete", 404)

\* create_collection's creating PUT was answered 200.
CreateAnswered == rq_last.op = "create_collection" /\ LastAnswer("put", 200)

C32_DiscoveredOncePerEntry ==
    /\ rq_last.op # "format_lookup_other" =>
          rq_last.lookups <= (IF CachedBefore THEN 0 ELSE 1)
    /\ (rq_last.op = "format_lookup" \/ (IsUpload /\ rq_last.named # {})) =>
          rq_last.lookups = (IF CachedBefore THEN 0 ELSE 1)
    /\ (IsUpload /\ rq_last.lookups = 1) => Collection \in DOMAIN rq_cache
    /\ rq_last.op = "format_lookup_other" =>
          rq_last.lookups = (IF OtherCollection \in DOMAIN rq_last.before THEN 0 ELSE 1)
    /\ ~(rq_last.op \in {"format_lookup", "format_lookup_other"} \/ IsUpload) =>
          rq_last.lookups = 0

C32_Witness ==
    /\ rq_last.op = "upload_chunks_batch" /\ rq_last.arg
    /\ CachedBefore /\ ~rq_last.before[Collection]
    /\ rq_remote.layout.sparse_vectors
    /\ rq_last.lookups = 0
    /\ rq_last.events # <<>>

\* C33: delete_collection invalidates the hybrid cache entry of the deleted
\* name: after a 200 or 404 answer to the DELETE request (also when it then
\* raises not-found) the cache holds no entry for that name and the entries
\* of other names are unchanged; when the delete fails otherwise (the
\* existence probe or the DELETE raises, or the answer is another status) the
\* cache is left unchanged.
C33_DeleteInvalidatesEntry ==
    rq_last.op = "delete_collection" =>
        IF DeleteAnswered
        THEN /\ Collection \notin DOMAIN rq_cache
             /\ DOMAIN rq_cache = DOMAIN rq_last.before \ {Collection}
             /\ \A n \in DOMAIN rq_cache : rq_cache[n] = rq_last.before[n]
        ELSE rq_cache = rq_last.before

C33_Witness ==
    /\ rq_last.op = "delete_collection"
    /\ LastAnswer("delete", 404)
    /\ rq_last.raised = "QdrantCollectionNotFoundError"
    /\ DOMAIN rq_last.before = {Collection, OtherCollection}
    /\ DOMAIN rq_cache = {OtherCollection}

\* What an operation sees of an assumed standard status: the entry holds
\* standard, a lookup returns it without a request, an upload sends no
\* configuration request and formats its points as bare lists.
AssumedStandardSeen ==
    /\ Collection \in DOMAIN rq_cache /\ rq_cache[Collection] = FALSE
    /\ (CachedBefore /\ rq_last.op = "format_lookup") =>
          /\ rq_last.value = FALSE
          /\ rq_last.lookups = 0 /\ rq_last.events = <<>>
    /\ (CachedBefore /\ IsUpload) =>
          rq_last.lookups = 0 /\ rq_last.named \subseteq {FALSE}

C11_SparseConfigDecidesFormat ==
    (IsUpload /\ rq_last.named # {}) =>
        rq_last.named = {rq_remote.layout.sparse_vectors}

\* C11: the point of an upload carries {dense: [...]} exactly when the
\* adapter's cached hybrid status of the collection is true and a bare list
\* otherwise; a status cached by an inspection that succeeded is true when
\* the remote configuration has a sparse-vector configuration or a vector
\* named dense, and a status cached by an inspection that failed is false.
\* The same for upload_chunk and upload_chunks_batch.
C11_CachedStatusDecidesFormat ==
    (IsUpload /\ rq_last.named # {}) =>
        /\ Collection \in DOMAIN rq_cache
        /\ rq_last.named = {rq_cache[Collection]}
        /\ ~CachedBefore =>
              /\ rq_last.value =>
                    rq_cache[Collection] =
                        (rq_remote.layout.sparse_vectors \/ rq_remote.layout.dense_named)
              /\ rq_cache[Collection] =>
                    (rq_remote.layout.sparse_vectors \/ rq_remote.layout.dense_named)

C11_Witness ==
    /\ rq_last.op = "upload_chunks_batch"
    /\ ~CachedBefore
    /\ rq_last.named = {TRUE}
    /\ ~rq_remote.layout.sparse_vectors

(***************************************************************************)
(* The flat chunk list of a run (Spec).                                    *)
(***************************************************************************)
\* position of a file in the walk of the directory tree
TreePos(name) == CHOOSE k \in 1..Len(tree) : tree[k].name = name

\* C22: in the flat chunk list the chunks of a document are contiguous and
\* numbered 1, 2, ..., n in that order, the documents follow discovery order,
\* and no chunk has empty text.
C22_FlatListOrdered ==
    \A i \in 1..Len(all_chunks) :
        LET c == all_chunks[i]
        IN /\ c.text # <<>>
           /\ \E k \in 1..Len(tree) : tree[k].name = c.file
           /\ IF i = 1 THEN c.cid = 1
              ELSE LET b == all_chunks[i - 1]
                   IN \/ b.file = c.file /\ c.cid = b.cid + 1
                      \/ TreePos(b.file) < TreePos(c.file) /\ c.cid = 1

C22_Witness ==
    /\ pc = "loop"
    /\ Len(all_chunks) = 3
    /\ [i \in 1..3 |-> all_chunks[i].cid] = <<1, 2, 1>>
    /\ all_chunks[2].file # all_chunks[3].file

\* all_chunks[start:start + BATCH_SIZE]
Slice(start) ==
    SubSeq(all_chunks, start + 1, Min(start + BATCH_SIZE, Len(all_chunks)))

RECURSIVE ConcatSlices(_)
ConcatSlices(starts) ==
    IF starts = <<>> THEN <<>>
    ELSE Slice(Head(starts)) \o ConcatSlices(Tail(starts))

\* the batches a position of the flat list belongs to
BatchesOf(p) ==
    {k \in DOMAIN batchStarts : batchStarts[k] < p /\ p <= batchStarts[k] + BATCH_SIZE}

\* C29: the batches are consecutive slices of the flat chunk list of the batch
\* size, none empty and only the last possibly shorter; no chunk is in two
\* batches, and when the run ends every chunk is in one and the batches
\* concatenated in processing order are the flat list.
C29_BatchesPartition ==
    LET n == Len(all_chunks)
    IN /\ \A k \in DOMAIN batchStarts :
             LET len == Len(Slice(batchStarts[k]))
             IN /\ 1 <= len /\ len <= BATCH_SIZE
                /\ len < BATCH_SIZE => k = Len(batchStarts) /\ batchStarts[k] + len = n
       /\ IsPrefix(ConcatSlices(batchStarts), all_chunks)
       /\ \A p \in 1..n : Cardinality(BatchesOf(p)) <= 1
       /\ pc \in {"prepare", "imbatch", "fallback"} =>
             BatchItems = {p \in 1..n : BatchesOf(p) = {Len(batchStarts)}}
       /\ pc = "done" =>
             /\ ConcatSlices(batchStarts) = all_chunks
             /\ \A p \in 1..n : Cardinality(BatchesOf(p)) = 1

C29_Witness ==
    /\ pc = "done"
    /\ Len(all_chunks) = 3
    /\ batchStarts = <<0, 2>>
    /\ Len(Slice(2)) = 1

(***************************************************************************)
(* Single operations of the adapter (SpecReq).                             *)
(***************************************************************************)
\* A request that did not reach the index: the connection failed or timed out
ConnectivityFailure(cls) ==
    cls # "" /\ Bases(cls) \cap {"ConnectionError", "Timeout"} # {}

\* C23: the existence probe returns true exactly when the index answers 200;
\* it returns false, without raising, when the index answers anything else
\* and when the request fails to connect or times out.
C23_ProbeNeverRaisesOnConnectivity ==
    rq_last.op = "collection_exists" =>
        LET e == rq_last.log[1]
        IN /\ Len(rq_last.log) = 1
           /\ rq_last.value <=> (e.cls = "" /\ e.status = 200)
           /\ e.cls = "" \/ ConnectivityFailure(e.cls) => rq_last.raised = ""
           /\ rq_last.raised # "" => ~rq_last.value

C23_Witness ==
    /\ rq_last.op = "collection_exists"
    /\ rq_last.log[1].cls = "ReadTimeout"
    /\ rq_remote.exists
    /\ ~rq_last.value
    /\ rq_last.raised = ""

\* The errors that report an answer of the index other than success
OperationErrors == {"DatabaseOperationError", "QdrantError"}

\* C24: search returns results only when the index answers 200; on any other
\* answer it fails with an operation error, which for a 404 answer is the
\* collection-not-found error, and returns nothing.
C24_SearchFailsOnNonSuccess ==
    rq_last.op = "search" =>
        LET e == rq_last.log[1]
        IN /\ rq_last.raised = "" <=> (e.cls = "" /\ e.status = 200)
           /\ e.cls = "" /\ e.status = 404 =>
                rq_last.raised = "QdrantCollectionNotFoundError"
           /\ e.cls = "" /\ e.status \notin {200, 404} =>
                rq_last.raised \in OperationErrors

\* the requests of the last operation made with the given method
HttpCount(method) ==
    Cardinality({i \in DOMAIN rq_last.events : rq_last.events[i] = Http(method)})

\* C27: upload_chunks_batch given a non-empty chunk list sends exactly one
\* point write (PUT) and no per-point existence check: its only GET is the
\* format lookup of a collection whose status is not cached yet; given an
\* empty list it sends no request at all.
C27_OneBulkWriteNoExistenceCheck ==
    rq_last.op = "upload_chunks_batch" =>
        IF rq_last.arg
        THEN /\ HttpCount("put") = 1
             /\ HttpCount("get") = (IF CachedBefore THEN 0 ELSE 1)
             /\ rq_last.events[Len(rq_last.events)] = Http("put")
        ELSE rq_last.events = <<>> /\ rq_last.named = {}

C27_Witness ==
    /\ rq_last.op = "upload_chunks_batch"
    /\ rq_last.arg
    /\ CachedBefore
    /\ Cardinality(rq_last.named) = 1
    /\ rq_last.events = <<Acquire, Http("put")>>

(***************************************************************************)
(* The backoff of get_embedding (SpecEmb).                                 *)
(***************************************************************************)
\* the failed attempts that have been followed by their sleep
SleptAfter ==
    IF emb_pc \in {"attempt", "acquired"} THEN Len(posts)
    ELSE IF emb_pc = "idle" THEN 0
    ELSE Len(posts) - 1

\* C25: get_embedding sleeps 1 second after the first failed attempt and 2
\* seconds after the second; it does not sleep after the third attempt, nor
\* after the attempt that succeeds.
C25_ExponentialBackoff ==
    /\ sleeps \in {<<>>, <<1>>, <<1, 2>>}
    /\ Len(sleeps) = SleptAfter
    /\ emb_pc = "raised" => sleeps = <<1, 2>> /\ Len(posts) = 3

C25_Witness ==
    /\ emb_pc = "raised"
    /\ sleeps = <<1, 2>>
    /\ \A i \in 1..3 : posts[i].outcome = "ConnectionError"

\* C26: every kind of failed attempt (timeout, refused connection, other
\* request error, answer other than 200) is retried in the same way: a failed
\* attempt before the third is followed by the backoff sleep and the next
\* attempt, a failed third attempt by the error of the call.
C26_FailuresRetriedAlike ==
    \A i \in DOMAIN posts :
        posts[i].outcome \in PostOutcomes \ {"200"} =>
            IF i < 3
            THEN \/ i = Len(posts) /\ emb_pc = "backoff" /\ attempt = i
                 \/ Len(sleeps) >= i /\ attempt > i
            ELSE emb_pc = "raised" /\ emb_result = EmbeddingFailure(ollama_url)

C26_Witness ==
    /\ emb_pc = "raised"
    /\ [i \in 1..3 |-> posts[i].outcome] = <<"Timeout", "RequestException", "500">>
    /\ sleeps = <<1, 2>>

(***************************************************************************)
(* SpecConfig: Config.__init__ (defaults, then the configuration file,     *)
(* then the environment) followed by a chunk_text call that takes          *)
(* chunk_size and overlap from the configuration.                          *)
(***************************************************************************)
MaxEnvLen == 1

EnvChars == {"0", "1", "2", "3", "x"}

EnvStrings == UNION {[1..n -> EnvChars] : n \in 0..MaxEnvLen}

\* os.environ restricted to CHUNK_SIZE and CHUNK_OVERLAP: any subset of the
\* two may be set, to any string
Environs ==
    UNION {[names -> EnvStrings] : names \in SUBSET {"CHUNK_SIZE", "CHUNK_OVERLAP"}}

\* The text_processing section of a configuration file
FileConfigs ==
    UNION {[keys -> 1..ChunkSize] : keys \in SUBSET {"chunk_size", "overlap"}}

ConfigTexts == {<<>>, <<"a">>, ExampleText}

\* Config._merge_config on the text_processing section
merge_config(base, override) ==
    [k \in DOMAIN base \cup DOMAIN override |->
        IF k \in DOMAIN override THEN override[k] ELSE base[k]]

DigitValue(c) == CHOOSE d \in 0..9 : Digits[d + 1] = c

\* int(value) succeeds
IsInt(value) ==
    /\ value # <<>>
    /\ \A i \in 1..Len(value) : \E d \in 0..9 : Digits[d + 1] = value[i]

RECURSIVE int(_)
int(value) ==
    IF value = <<>> THEN 0
    ELSE 10 * int(SubSeq(value, 1, Len(value) - 1)) + DigitValue(value[Len(value)])

\* Config._set_int_env: an unset or empty variable and one that is not an
\* integer leave the key as it is
set_int_env(cfg, env, env_var, key) ==
    IF env_var \in DOMAIN env /\ env[env_var] # <<>> /\ IsInt(env[env_var])
    THEN [cfg EXCEPT ![key] = int(env[env_var])]
    ELSE cfg

\* Config._load_from_env, the text processing settings
load_from_env(cfg, env) ==
    set_int_env(set_int_env(cfg, env, "CHUNK_SIZE", "chunk_size"),
                env, "CHUNK_OVERLAP", "overlap")

\* chunk_text as called: range(0, len(words), step) raises ValueError for a
\* step of zero and is empty for a negative step
chunk_text_call(text, chunk_size, overlap) ==
    IF chunk_size - overlap = 0
    THEN [raised |-> "ValueError", chunks |-> <<>>]
    ELSE IF chunk_size - overlap < 0
    THEN [raised |-> "", chunks |-> <<>>]
    ELSE [raised |-> "", chunks |-> chunk_text_str(text, chunk_size, overlap)]

InitConfig ==
    /\ \E file \in FileConfigs, env \in Environs : ConfigNotConstructed(file, env)
    /\ \E text \in ConfigTexts : ChunkTextNotCalled(text, "None", "None")
    /\ BatchNotCalled(0)
    /\ ExtraParked
    /\ precheck = NoPrecheck
    /\ emb_seen = "none"
    /\ AdapterConstructed([exists |-> FALSE, layout |-> InMemoryConfig])
    /\ IngestConstructed("inmemory", <<>>, InMemoryConfig, EmptyIndex)
    /\ RLConstructed(1)
    /\ EmbNotCalled(<<>>, "")
    /\ NoAdapterCall("adrs")

ConfigFrame ==
    UNCHANGED <<ingestVars, rlVars, embVars, ucVars, precheck, emb_seen, reqVars,
                poolVars, extraVars, cfg_file, environ, ct_text>>

\* Config.__init__: the file, when there is one, is merged into the defaults
ConfigLoadFromFile ==
    /\ cfg_pc = "init"
    /\ cfg_pc' = "file"
    /\ config' = merge_config(config, cfg_file)
    /\ UNCHANGED <<ct_pc, ct_size, ct_overlap, ct_chunks>>
    /\ ConfigFrame

\* Config.__init__: the environment overrides; the object is then constructed
ConfigLoadFromEnv ==
    /\ cfg_pc = "file"
    /\ cfg_pc' = "loaded"
    /\ config' = load_from_env(config, environ)
    /\ UNCHANGED <<ct_pc, ct_size, ct_overlap, ct_chunks>>
    /\ ConfigFrame

\* chunk_text(text): both parameters are None and come from get_config()
ChunkTextDefault ==
    /\ cfg_pc = "loaded"
    /\ ct_pc = "idle"
    /\ LET r == chunk_text_call(ct_text, config.chunk_size, config.overlap)
       IN /\ ct_pc' = IF r.raised # "" THEN "raised" ELSE "returned"
          /\ ct_chunks' = r.chunks
    /\ ct_size' = config.chunk_size
    /\ ct_overlap' = config.overlap
    /\ UNCHANGED <<cfg_pc, config>>
    /\ ConfigFrame

NextConfig == ConfigLoadFromFile \/ ConfigLoadFromEnv \/ ChunkTextDefault

SpecConfig == InitConfig /\ [][NextConfig]_vars

\* C21: a configuration whose overlap is not below its chunk_size is rejected
\* when the configuration is loaded, so no chunk_text call runs with a step
\* chunk_size - overlap that is zero or negative.
C21_InvalidOverlapRejected ==
    /\ cfg_pc = "loaded" => config.overlap < config.chunk_size
    /\ ct_pc \in {"returned", "raised"} => ct_size - ct_overlap > 0

(***************************************************************************)
(* SpecPool: one upload_chunks_batch call of the Qdrant adapter with its   *)
(* threads apart: the coordinating thread submits the prepare_point tasks, *)
(* the workers of the ThreadPoolExecutor run them, the coordinating thread *)
(* takes the results as they complete, then writes the batch.              *)
(***************************************************************************)
MaxBatchLen == 5

\* Mutant: the pool is as large as the batch.
max_workers_is_batch_length(n) == n

\* max_workers = min(DEFAULT_MAX_WORKERS, len(chunks))
max_workers(n) == Min(DEFAULT_MAX_WORKERS, n)

\* Mutant: a chunk whose preparation failed is not reported.
callback_after_succeeded_only(e) == e = "ok"

\* progress_callback(1) follows a prepared point and, in the except branch, a
\* failed one
callback_after(e) == e \in {"ok", "fail"}

\* progress_callback(1) as invoked by a thread for a chunk
Callback(chunk, thread) == [chunk |-> chunk, count |-> 1, thread |-> thread]

TasksIn(states) == {i \in 1..pp_n : pp_task[i] \in states}

Running == TasksIn({"running"})

Taken == TasksIn({"ok_taken", "fail_taken"})

InitPool ==
    /\ \E n \in 0..MaxBatchLen : BatchNotCalled(n)
    /\ ExtraParked
    /\ ChunkTextNotCalled(<<>>, 1, 0)
    /\ ConfigNotConstructed(Empty, Empty)
    /\ precheck = NoPrecheck
    /\ emb_seen = "none"
    /\ AdapterConstructed([exists |-> FALSE, layout |-> InMemoryConfig])
    /\ IngestConstructed("qdrant", <<>>, InMemoryConfig, EmptyIndex)
    /\ RLConstructed(1)
    /\ EmbNotCalled(<<>>, "")
    /\ NoAdapterCall("adrs")

PoolFrame ==
    UNCHANGED <<ingestVars, rlVars, embVars, ucVars, chunkVars, precheck, emb_seen,
                reqVars, cfgVars, extraVars, pp_n>>

\* upload_chunks_batch up to the choice of the prepare function; an empty
\* list returns at once
BatchCall ==
    /\ pp_pc = "idle"
    /\ IF pp_n = 0
       THEN pp_pc' = "returned" /\ UNCHANGED <<pp_path, pp_workers>>
       ELSE /\ pp_pc' = "prepare"
            /\ pp_path' = IF use_parallel(pp_n) THEN "parallel" ELSE "sequential"
            /\ pp_workers' = IF use_parallel(pp_n) THEN max_workers(pp_n) ELSE 0
    /\ UNCHANGED <<pp_task, pp_callbacks>>
    /\ PoolFrame

\* executor.submit(prepare_point, ...) for the next chunk of the list
Submit(i) ==
    /\ pp_pc = "prepare" /\ pp_path = "parallel"
    /\ pp_task[i] = "new"
    /\ \A j \in TasksIn({"new"}) : i <= j
    /\ pp_task' = [pp_task EXCEPT ![i] = "queued"]
    /\ UNCHANGED <<pp_pc, pp_path, pp_workers, pp_callbacks>>
    /\ PoolFrame

\* A worker of the pool takes the oldest queued task; the pool has at most
\* max_workers threads
WorkerStart(i) ==
    /\ pp_pc = "prepare" /\ pp_path = "parallel"
    /\ pp_task[i] = "queued"
    /\ \A j \in TasksIn({"queued"}) : i <= j
    /\ Cardinality(Running) < pp_workers
    /\ pp_task' = [pp_task EXCEPT ![i] = "running"]
    /\ UNCHANGED <<pp_pc, pp_path, pp_workers, pp_callbacks>>
    /\ PoolFrame

\* prepare_point returns or raises in its worker; the future is completed
WorkerFinish(i, e) ==
    /\ pp_pc = "prepare" /\ pp_path = "parallel"
    /\ pp_task[i] = "running"
    /\ pp_task' = [pp_task EXCEPT ![i] = e]
    /\ UNCHANGED <<pp_pc, pp_path, pp_workers, pp_callbacks>>
    /\ PoolFrame

\* One pass of `for future in as_completed(...)` on the coordinating thread:
\* a completed future is taken, its point appended or its failure logged
AsCompleted(i) ==
    /\ pp_pc = "prepare" /\ pp_path = "parallel"
    /\ TasksIn({"new"}) = {}
    /\ pp_task[i] \in {"ok", "fail"}
    /\ pp_task' = [pp_task EXCEPT ![i] = IF pp_task[i] = "ok" THEN "ok_taken"
                                         ELSE "fail_taken"]
    /\ pp_callbacks' = IF callback_after(pp_task[i])
                       THEN Append(pp_callbacks, Callback(i, "coordinator"))
                       ELSE pp_callbacks
    /\ UNCHANGED <<pp_pc, pp_path, pp_workers>>
    /\ PoolFrame

\* _prepare_points_sequential: the coordinating thread starts prepare_point
\* for the next chunk of the list
SequentialStart(i) ==
    /\ pp_pc = "prepare" /\ pp_path = "sequential"
    /\ pp_task[i] = "new"
    /\ \A j \in TasksIn({"new"}) : i <= j
    /\ Running = {}
    /\ pp_task' = [pp_task EXCEPT ![i] = "running"]
    /\ UNCHANGED <<pp_pc, pp_path, pp_workers, pp_callbacks>>
    /\ PoolFrame

\* and it returns or raises there
SequentialFinish(i, e) ==
    /\ pp_pc = "prepare" /\ pp_path = "sequential"
    /\ pp_task[i] = "running"
    /\ pp_task' = [pp_task EXCEPT ![i] = IF e = "ok" THEN "ok_taken" ELSE "fail_taken"]
    /\ pp_callbacks' = IF callback_after(e)
                       THEN Append(pp_callbacks, Callback(i, "coordinator"))
                       ELSE pp_callbacks
    /\ UNCHANGED <<pp_pc, pp_path, pp_workers>>
    /\ PoolFrame

\* The prepare function returns its points: every result has been taken (the
\* executor's with block has joined its workers)
PrepareReturn ==
    /\ pp_pc = "prepare"
    /\ Taken = 1..pp_n
    /\ pp_pc' = "upload"
    /\ UNCHANGED <<pp_path, pp_workers, pp_task, pp_callbacks>>
    /\ PoolFrame

\* _upload_batch_points: the one PUT, which succeeds or raises
UploadBatchPoints(ok) ==
    /\ pp_pc = "upload"
    /\ pp_pc' = IF ok THEN "returned" ELSE "raised"
    /\ UNCHANGED <<pp_path, pp_workers, pp_task, pp_callbacks>>
    /\ PoolFrame

NextPool ==
    \/ BatchCall
    \/ \E i \in 1..pp_n : Submit(i)
    \/ \E i \in 1..pp_n : WorkerStart(i)
    \/ \E i \in 1..pp_n, e \in {"ok", "fail"} : WorkerFinish(i, e)
    \/ \E i \in 1..pp_n : AsCompleted(i)
    \/ \E i \in 1..pp_n : SequentialStart(i)
    \/ \E i \in 1..pp_n, e \in {"ok", "fail"} : SequentialFinish(i, e)
    \/ PrepareReturn
    \/ \E ok \in BOOLEAN : UploadBatchPoints(ok)

SpecPool == InitPool /\ [][NextPool]_vars

\* C28: the chunks being prepared at the same time never exceed
\* min(max workers, batch length); a batch of one chunk takes the sequential
\* path and a batch of two or more the parallel path; the bulk write starts
\* only when every prepare task of the batch has finished.
C28_BoundedPrepare ==
    /\ Cardinality(Running) <= Min(DEFAULT_MAX_WORKERS, pp_n)
    /\ pp_pc \notin {"idle"} /\ pp_n >= 1 =>
          pp_path = (IF pp_n >= 2 THEN "parallel" ELSE "sequential")
    /\ pp_pc \in {"upload", "returned", "raised"} =>
          TasksIn({"new", "queued", "running"}) = {}

C28_Witness ==
    /\ pp_n > DEFAULT_MAX_WORKERS
    /\ Cardinality(Running) = DEFAULT_MAX_WORKERS
    /\ TasksIn({"queued"}) # {}

\* C30: in the prepare phase progress_callback is invoked with count 1, once
\* for each chunk whose preparation has ended, succeeded or failed, so once
\* per chunk of the batch when the phase ends, and every invocation is made
\* by the coordinating thread.
C30_ProgressOncePerChunk ==
    /\ \A k \in DOMAIN pp_callbacks :
          /\ pp_callbacks[k].count = 1
          /\ pp_callbacks[k].thread = "coordinator"
          /\ \A l \in DOMAIN pp_callbacks :
                pp_callbacks[l].chunk = pp_callbacks[k].chunk => l = k
    /\ {pp_callbacks[k].chunk : k \in DOMAIN pp_callbacks} = Taken
    /\ pp_pc \in {"upload", "returned", "raised"} =>
          Len(pp_callbacks) = pp_n

C30_Witness ==
    /\ pp_pc = "upload"
    /\ pp_path = "parallel"
    /\ TasksIn({"fail_taken"}) # {}
    /\ TasksIn({"ok_taken"}) # {}
    /\ Len(pp_callbacks) = pp_n
    /\ pp_callbacks[1].chunk = pp_n

\* The chunks whose points are in the list given to _upload_batch_points.
PointsWritten == TasksIn({"ok_taken"})

\* C36: whenever upload_chunks_batch returns without raising for a non-empty
\* batch, the bulk write it sent contained one point for every chunk of the
\* batch.
C36_ReturnMeansEveryChunkWritten ==
    (pp_pc = "returned" /\ pp_n >= 1) => PointsWritten = 1..pp_n

(***************************************************************************)
(* SpecDetect: _detect_hybrid_from_info as a function of the JSON document *)
(* that get_collection_info returned, well-formed or not.                  *)
(***************************************************************************)
\* A key that the dictionary does not have
Absent == [kind |-> "absent", val |-> <<>>]

EmptyDict == JDict(<<>>)

\* A dictionary built from keys and values, leaving out the absent ones
DictOf(pairs) ==
    JDict([k \in {q \in DOMAIN pairs : pairs[q] # Absent} |-> pairs[k]])

NonDicts == {JNull, JStr(<<"x">>), JList(<<>>)}

VectorParams == ("size" :> JStr(<<"768">>)) @@ ("distance" :> JStr(<<"Cosine">>))

SparseValues ==
    {Absent, JNull, EmptyDict, JDict("text" :> EmptyDict), JList(<<>>),
     JList(<<JStr(<<"text">>)>>), JStr(<<>>)}

VectorsValues ==
    {Absent, JNull, EmptyDict, JDict(VectorParams), JDict("dense" :> JDict(VectorParams)),
     JDict(("dense" :> JDict(VectorParams)) @@ ("title" :> JDict(VectorParams))),
     JDict("title" :> JDict(VectorParams)), JStr(<<"dense">>),
     JList(<<JStr(<<"dense">>)>>)}

ParamsValues ==
    {Absent} \cup NonDicts
    \cup {DictOf(("sparse_vectors" :> sv) @@ ("vectors" :> vc)) :
            sv \in SparseValues, vc \in VectorsValues}

ConfigValues ==
    {Absent} \cup NonDicts \cup {DictOf("params" :> pa) : pa \in ParamsValues}

ResultValues ==
    {Absent} \cup NonDicts \cup {DictOf("config" :> cf) : cf \in ConfigValues}

CollectionInfos == NonDicts \cup {DictOf("result" :> re) : re \in ResultValues}

\* isinstance(value, dict)
IsDict(value) == value.kind = "dict"

\* d.get(key, default) on a dictionary
Get(d, key, default) == IF key \in DOMAIN d.val THEN d.val[key] ELSE default

\* bool(value): None and empty containers and strings are false
Truthy(value) == value.kind \in {"dict", "list", "str"} /\ value.val # <<>>

\* Mutant: any dictionary of named vectors counts, whatever its keys.
has_named_vectors_any_key(vectors_config) ==
    IsDict(vectors_config) /\ vectors_config.val # <<>>

\* isinstance(vectors_config, dict) and "dense" in vectors_config
has_named_vectors(vectors_config) ==
    IsDict(vectors_config) /\ "dense" \in DOMAIN vectors_config.val

\* QdrantVectorDatabase._detect_hybrid_from_info on the JSON document; the
\* ValueError of its first test is caught by its own except clause
detect_hybrid_from_json(collection_info) ==
    IF ~IsDict(collection_info) THEN FALSE
    ELSE LET result == Get(collection_info, "result", EmptyDict)
         IN IF ~IsDict(result) THEN FALSE
            ELSE LET config_ == Get(result, "config", EmptyDict)
                 IN IF ~IsDict(config_) THEN FALSE
                    ELSE LET params == Get(config_, "params", EmptyDict)
                         IN IF ~IsDict(params) THEN FALSE
                            ELSE LET has_sparse ==
                                         Truthy(Get(params, "sparse_vectors", JNull))
                                     vectors_config == Get(params, "vectors", EmptyDict)
                                 IN has_sparse \/ has_named_vectors(vectors_config)

InitDetect ==
    /\ \E info \in CollectionInfos : DetectNotCalled(info)
    /\ NoBatchToStore
    /\ BatchNotCalled(0)
    /\ ChunkTextNotCalled(<<>>, 1, 0)
    /\ ConfigNotConstructed(Empty, Empty)
    /\ precheck = NoPrecheck
    /\ emb_seen = "none"
    /\ AdapterConstructed([exists |-> FALSE, layout |-> InMemoryConfig])
    /\ IngestConstructed("qdrant", <<>>, InMemoryConfig, EmptyIndex)
    /\ RLConstructed(1)
    /\ EmbNotCalled(<<>>, "")
    /\ NoAdapterCall("adrs")

DetectHybridFromInfo ==
    /\ dh_pc = "idle"
    /\ dh_pc' = "returned"
    /\ dh_result' = detect_hybrid_from_json(dh_info)
    /\ UNCHANGED <<ingestVars, rlVars, embVars, ucVars, chunkVars, precheck, emb_seen,
                   reqVars, cfgVars, poolVars, storeVars, dh_info>>

NextDetect == DetectHybridFromInfo

SpecDetect == InitDetect /\ [][NextDetect]_vars

\* the value under a path of keys, Absent as soon as a level is not a
\* dictionary or lacks the key
RECURSIVE AtPath(_, _)
AtPath(value, keys) ==
    IF keys = <<>> THEN value
    ELSE IF value.kind = "dict" /\ Head(keys) \in DOMAIN value.val
    THEN AtPath(value.val[Head(keys)], Tail(keys))
    ELSE Absent

Size(value) ==
    IF value.kind = "dict" THEN Cardinality(DOMAIN value.val)
    ELSE IF value.kind \in {"list", "str"} THEN Len(value.val)
    ELSE 0

StoredPoint(c, is_hybrid) ==
    [vector |-> format_vector_payload(Embed(c.text), is_hybrid),
     payload |-> [chunk_text |-> c.text, source_file |-> c.file, chunk_id |-> c.cid]]

\* The indexes a batch can meet: those of UCInitIndexes, the chunk's own
\* point as a run over the same tree stored it, in either format, and a
\* point of another file under the primary id of the batch's second chunk.
StoreInitIndexes ==
    LET c1 == [text |-> <<"w1">>, file |-> FileA, cid |-> 1]
    IN UCInitIndexes("qdrant")
       \cup {generate_point_id(FileA, 1) :> StoredPoint(c1, h) : h \in BOOLEAN}
       \cup {generate_point_id(FileA, 2) :> ForeignPoint}

InitStore ==
    /\ \E chunks \in UCBatches, idx \in StoreInitIndexes, rmt \in RemoteConfigs :
         StoreNotCalled(chunks, idx, rmt)
    /\ DetectNotCalled(JNull)
    /\ BatchNotCalled(0)
    /\ ChunkTextNotCalled(<<>>, 1, 0)
    /\ ConfigNotConstructed(Empty, Empty)
    /\ precheck = NoPrecheck
    /\ emb_seen = "none"
    /\ AdapterConstructed([exists |-> FALSE, layout |-> InMemoryConfig])
    /\ IngestConstructed("qdrant", <<>>, InMemoryConfig, EmptyIndex)
    /\ RLConstructed(1)
    /\ EmbNotCalled(<<>>, "")
    /\ NoAdapterCall("adrs")

StoreFrame ==
    UNCHANGED <<ingestVars, rlVars, embVars, ucVars, chunkVars, precheck, emb_seen,
                reqVars, cfgVars, poolVars, detectVars, st_chunks, st_start, st_remote>>

\* upload_chunks_batch on the batch, nothing failing
StoreBulk ==
    /\ ~st_bulk.done
    /\ \E r \in upload_chunks_batch(Collection, st_start, <<>>, st_remote, st_chunks) :
         /\ ~r.fault /\ r.call.outcome = "stored"
         /\ st_bulk' = [done |-> TRUE, index |-> r.index]
    /\ UNCHANGED st_items
    /\ StoreFrame

\* upload_chunk on the next chunk of the batch, nothing failing
StoreItem ==
    /\ st_items.next <= Len(st_chunks)
    /\ \E r \in upload_chunk(Collection, st_items.index, st_items.cache, {}, st_remote,
                              st_chunks[st_items.next]) :
         /\ ~r.fault /\ r.call.outcome # "raised"
         /\ st_items' = [next |-> st_items.next + 1, index |-> r.index,
                         cache |-> r.cache]
    /\ UNCHANGED st_bulk
    /\ StoreFrame

NextStore == StoreBulk \/ StoreItem

SpecStore == InitStore /\ [][NextStore]_vars

\* The batch has been stored both ways.
StoredBothWays == st_bulk.done /\ st_items.next > Len(st_chunks)

\* C38 as claimed: for any initial index contents, the index after a batch
\* is the same whether the batch was stored by the bulk write or by the
\* per-item fallback, every embedding and every write succeeding.
C38_SameIndexEitherWay == StoredBothWays => st_bulk.index = st_items.index

\* Every primary id of the batch is free in the index or holds the very
\* point the batch writes under it.
FreeOrSame(idx, chunks, is_hybrid) ==
    \A i \in DOMAIN chunks :
        LET pid == generate_point_id(chunks[i].file, chunks[i].cid)
        IN pid \in DOMAIN idx => idx[pid] = StoredPoint(chunks[i], is_hybrid)

\* C38: for an initial index in which every primary id of the batch's chunks
\* is unoccupied or holds the very point the batch writes for that chunk, the
\* index after the batch is the same whether the batch was stored by the
\* bulk write or by the per-item fallback, every embedding and every write
\* succeeding.
C38_SameIndexWhenIdsFreeOrSame ==
    (StoredBothWays
     /\ FreeOrSame(st_start, st_chunks, detect_hybrid_from_info(st_remote))) =>
        st_bulk.index = st_items.index

C38_Witness ==
    /\ StoredBothWays
    /\ Len(st_chunks) = 2
    /\ DOMAIN st_start = {generate_point_id(FileA, 1)}
    /\ FreeOrSame(st_start, st_chunks, detect_hybrid_from_info(st_remote))
    /\ st_remote.sparse_vectors
    /\ st_bulk.index = st_items.index
    /\ Cardinality(DOMAIN st_bulk.index) = 2

====
